---- MODULE Spec2Model ----
(***************************************************************************)
(* Constitutional-AI critique engine: the self-critique / revision loop    *)
(* of apps/api/cai_core/critique.py over constitutions of                  *)
(* packages/cai_core/constitution.py.                                      *)
(*                                                                         *)
(* Texts are finite sequences of characters.  Floats that the code         *)
(* computes from small integers (similarity ratio, confidence, thresholds) *)
(* are kept as exact fractions <<numerator, denominator>>.                 *)
(*                                                                         *)
(* The generation capability (client.messages.create) is the environment: *)
(* a call is issued, stays in flight, and later either raises or returns  *)
(* some text.  The evaluation calls of one round are asyncio tasks that    *)
(* are started and completed in any order.                                 *)
(***************************************************************************)
EXTENDS Integers, Sequences, FiniteSets, TLC

\* ------------------------------------------------------------------ bounds
MaxPrinciples == 2
MaxRoundsBound == 2
MaxTextLen == 2

\* ------------------------------------------------------------- value sets
Chars == {"a", " "}
Whitespace == {" "}

Texts == UNION {[1..n -> Chars] : n \in 0..MaxTextLen}

PrincipleIdPool == <<"p1", "p2", "p3", "p4", "p5", "p6">>
PrincipleIds == {PrincipleIdPool[k] : k \in 1..MaxPrinciples}

\* convergence_threshold values tried: the default 0.98, a loose 0.5, the
\* largest reachable 1.0 and an unreachable 1.5
DefaultThreshold == <<98, 100>>
Thresholds == {<<1, 2>>, DefaultThreshold, <<1, 1>>, <<3, 2>>}

\* ---------------------------------------------------------------- helpers
Min(x, y) == IF x <= y THEN x ELSE y

Range(s) == {s[k] : k \in 1..Len(s)}

\* fractions
RatGE(x, y) == x[1] * y[2] >= y[1] * x[2]
RatEq(x, y) == x[1] * y[2] = y[1] * x[2]

\* --------------------------------------------------- difflib.SequenceMatcher
\* Texts are indexed from 0 as in Python: a[i] is At(a, i).
At(s, i) == s[i + 1]

BlockMatches(a, b, i, j, k) == \A d \in 0..(k - 1) : At(a, i + d) = At(b, j + d)

\* find_longest_match(alo, ahi, blo, bhi) with no junk: the longest block
\* a[i:i+k] == b[j:j+k] inside the windows, the one starting earliest in a,
\* and of those the one starting earliest in b; (alo, blo, 0) when none.
FindLongestMatch(a, b, alo, ahi, blo, bhi) ==
    LET cand == {c \in (alo..(ahi - 1)) \X (blo..(bhi - 1)) \X (1..Min(ahi - alo, bhi - blo)) :
                    /\ c[1] + c[3] <= ahi
                    /\ c[2] + c[3] <= bhi
                    /\ BlockMatches(a, b, c[1], c[2], c[3])}
    IN  IF cand = {} THEN <<alo, blo, 0>>
        ELSE CHOOSE c \in cand :
                \A o \in cand :
                    \/ c[3] > o[3]
                    \/ c[3] = o[3] /\ c[1] < o[1]
                    \/ c[3] = o[3] /\ c[1] = o[1] /\ c[2] <= o[2]

\* sum of the sizes of get_matching_blocks(): the longest block, then the
\* same to its left and to its right
RECURSIVE MatchedChars(_, _, _, _, _, _)
MatchedChars(a, b, alo, ahi, blo, bhi) ==
    LET m == FindLongestMatch(a, b, alo, ahi, blo, bhi)
        i == m[1]
        j == m[2]
        k == m[3]
    IN  IF k = 0 THEN 0
        ELSE k
             + (IF alo < i /\ blo < j THEN MatchedChars(a, b, alo, i, blo, j) ELSE 0)
             + (IF i + k < ahi /\ j + k < bhi
                    THEN MatchedChars(a, b, i + k, ahi, j + k, bhi) ELSE 0)

\* SequenceMatcher(None, text1, text2).ratio() = 2.0 * matches / length,
\* 1.0 when both texts are empty
calculate_text_similarity(text1, text2) ==
    LET length == Len(text1) + Len(text2)
    IN  IF length = 0 THEN <<1, 1>>
        ELSE <<2 * MatchedChars(text1, text2, 0, Len(text1), 0, Len(text2)), length>>

\* str.strip()
RECURSIVE LStrip(_)
LStrip(s) == IF s # <<>> /\ Head(s) \in Whitespace THEN LStrip(Tail(s)) ELSE s

RECURSIVE RStrip(_)
RStrip(s) ==
    IF s # <<>> /\ s[Len(s)] \in Whitespace THEN RStrip(SubSeq(s, 1, Len(s) - 1)) ELSE s

Strip(s) == RStrip(LStrip(s))

\* ------------------------------------------------ generate_diff_summary
IsWordAt(s, i, j) ==
    /\ \A k \in i..j : s[k] \notin Whitespace
    /\ (i = 1 \/ s[i - 1] \in Whitespace)
    /\ (j = Len(s) \/ s[j + 1] \in Whitespace)

\* set(text.lower().split()); the characters of Chars have no upper case
WordSet(s) == {SubSeq(s, i, j) : <<i, j>> \in {w \in (1..Len(s)) \X (1..Len(s)) :
                                                w[1] <= w[2] /\ IsWordAt(s, w[1], w[2])}}

LenDiffLimit == 50

generate_diff_summary(original, revised) ==
    IF original = revised THEN <<"No changes made.">>
    ELSE LET added == WordSet(revised) \ WordSet(original)
             removed == WordSet(original) \ WordSet(revised)
             len_diff == Len(revised) - Len(original)
             parts == (IF removed # {} THEN <<"Removed concepts">> ELSE <<>>)
                      \o (IF added # {} THEN <<"Added concepts">> ELSE <<>>)
                      \o (IF len_diff > LenDiffLimit THEN <<"Response expanded">>
                          ELSE IF 0 - len_diff > LenDiffLimit THEN <<"Response shortened">>
                          ELSE <<>>)
         IN  IF parts # <<>> THEN parts ELSE <<"Minor phrasing changes.">>

\* ---------------------------------------------------------- constitution
PrincipleName(id) == <<"name of", id>>

Principle(id, enabled) == [id |-> id, name |-> PrincipleName(id), enabled |-> enabled]

\* principle lists with pairwise distinct ids, each principle enabled or not
PrincipleLists ==
    UNION {{[k \in 1..n |-> Principle(ids[k], en[k])] :
                ids \in {f \in [1..n -> PrincipleIds] :
                            \A x, y \in 1..n : x # y => f[x] # f[y]},
                en \in [1..n -> BOOLEAN]} : n \in 0..MaxPrinciples}

Constitutions == {[id |-> "c1", name |-> "constitution c1", principles |-> ps] :
                    ps \in PrincipleLists}

\* a mutant of get_enabled_principles: the enabled flag is ignored
get_all_principles(c) == c.principles

\* Constitution.get_enabled_principles
get_enabled_principles(c) == SelectSeq(c.principles, LAMBDA p : p.enabled)

\* ------------------------------------------------------ generation outcomes
\* What one evaluation call can do: messages.create raises; the text holds no
\* {...}; json.loads of the {...} found raises; the payload parses, with
\* triggered true or false.
CritiqueOutcomes == {"api_error", "no_json", "bad_json", "triggered", "not_triggered"}
CritiqueFailures == {"api_error", "bad_json"}

\* What one revision call can do: raise, or return some raw text.
RevisionOutcomes == {[ok |-> FALSE, text |-> <<>>]} \cup {[ok |-> TRUE, text |-> t] : t \in Texts}

Returned(v) == [raised |-> FALSE, value |-> v]
Raised(e) == [raised |-> TRUE, value |-> e]

ErrorText(outcome) == IF outcome = "bad_json" THEN "invalid JSON" ELSE "generation failed"

\* the payload found in the output of an evaluation call that parsed
Payload(outcome) ==
    IF outcome = "no_json"
        THEN [triggered |-> FALSE, severity |-> <<0, 1>>, critique |-> <<"response_text">>,
              suggestions |-> <<>>]
    ELSE IF outcome = "triggered"
        THEN [triggered |-> TRUE, severity |-> <<9, 10>>, critique |-> <<"critique">>,
              suggestions |-> <<"suggestion">>]
    ELSE [triggered |-> FALSE, severity |-> <<1, 10>>, critique |-> <<"critique">>,
          suggestions |-> <<"suggestion">>]

\* the try block of generate_critique
CritiqueTry(principle, outcome) ==
    IF outcome \in CritiqueFailures THEN Raised(ErrorText(outcome))
    ELSE LET result == Payload(outcome)
         IN  Returned([principle_id |-> principle.id,
                       principle_name |-> principle.name,
                       triggered |-> result.triggered,
                       critique_text |-> result.critique,
                       severity |-> result.severity,
                       suggestions |-> result.suggestions])

\* the except block of generate_critique
CritiqueOnError(principle, e) ==
    Returned([principle_id |-> principle.id,
              principle_name |-> principle.name,
              triggered |-> FALSE,
              critique_text |-> <<"Error during critique: ", e>>,
              severity |-> <<0, 1>>,
              suggestions |-> <<>>])

\* a mutant of generate_critique: no except clause, the error propagates
generate_critique_propagating(principle, outcome) == CritiqueTry(principle, outcome)

\* generate_critique
generate_critique(principle, outcome) ==
    LET body == CritiqueTry(principle, outcome)
    IN  IF body.raised THEN CritiqueOnError(principle, body.value) ELSE body

\* triggered_critiques = [c for c in critiques if c.triggered]
triggered_critiques(critiques) == SelectSeq(critiques, LAMBDA c : c.triggered)

\* a mutant of needs_generation: the short-circuit is missing
needs_generation_always(critiques) == TRUE

\* a mutant of needs_generation: any critique, triggered or not, asks for a
\* generation call
needs_generation_any(critiques) == critiques # <<>>

\* generate_revision makes a generation call unless no critique triggered
needs_generation(critiques) == triggered_critiques(critiques) # <<>>

\* a mutant of revision_unchanged: the short-circuit returns an empty text
revision_unchanged_blank(original_response) ==
    Returned([text |-> <<>>,
              confidence |-> <<1, 1>>,
              changes_made |-> <<"No changes needed">>])

\* generate_revision, the short-circuit: no violation found
revision_unchanged(original_response) ==
    Returned([text |-> original_response,
              confidence |-> <<1, 1>>,
              changes_made |-> <<"No changes needed">>])

\* the try block of generate_revision
RevisionTry(original_response, critiques, outcome) ==
    IF ~outcome.ok THEN Raised("generation failed")
    ELSE LET revised_text == Strip(outcome.text)
             similarity == calculate_text_similarity(original_response, revised_text)
             triggered == triggered_critiques(critiques)
         IN  Returned([text |-> revised_text,
                       confidence |-> <<similarity[2] + similarity[1], 2 * similarity[2]>>,
                       changes_made |-> [k \in 1..Len(triggered) |->
                                            <<"Addressed", triggered[k].principle_name>>]])

\* a mutant of revision_fallback: the failed revision is fully trusted
revision_fallback_confident(original_response, e) ==
    [text |-> original_response,
     confidence |-> <<1, 1>>,
     changes_made |-> <<<<"Revision failed: ", e>>>>]

\* a mutant of revision_fallback: the failed revision has no text
revision_fallback_empty(original_response, e) ==
    [text |-> <<>>,
     confidence |-> <<0, 1>>,
     changes_made |-> <<<<"Revision failed: ", e>>>>]

\* the except clause of generate_revision: the Revision it returns
revision_fallback(original_response, e) ==
    [text |-> original_response,
     confidence |-> <<0, 1>>,
     changes_made |-> <<<<"Revision failed: ", e>>>>]

\* a mutant of generate_revision_call: no except clause, the error propagates
generate_revision_propagating(original_response, critiques, outcome) ==
    RevisionTry(original_response, critiques, outcome)

\* generate_revision, after its generation call has ended with outcome
generate_revision_call(original_response, critiques, outcome) ==
    LET body == RevisionTry(original_response, critiques, outcome)
    IN  IF body.raised
            THEN Returned(revision_fallback(original_response, body.value))
        ELSE body


\* ------------------------------------------------- constitutional_critique
VARIABLES
    constitution,           \* argument
    max_rounds,             \* argument
    convergence_threshold,  \* argument
    initial_response,       \* argument
    enabled_principles,     \* constitution.get_enabled_principles()
    pc,                     \* "loop", "gather", "revising", "return", "done", "raised"
    round_num,              \* the index the for loop tries next
    current_response,
    rounds,
    all_triggered_principles,
    task_st,                \* critique_tasks: "scheduled", "inflight" or "done" each
    task_result,            \* what each task of the round returned
    completion,             \* the order in which the round's tasks completed
    critiques,              \* the list asyncio.gather returned
    round_triggered,
    loop_exit,              \* how the for loop was left: "none", "break", "exhausted"
    eval_log,               \* per round started, what each evaluation call did
    rev_log,                \* per round, what became of the revision call
    result                  \* the CritiqueResult returned

vars == <<constitution, max_rounds, convergence_threshold, initial_response,
          enabled_principles, pc, round_num, current_response, rounds,
          all_triggered_principles, task_st, task_result, completion, critiques,
          round_triggered, loop_exit, eval_log, rev_log, result>>

args == <<constitution, max_rounds, convergence_threshold, initial_response,
          enabled_principles>>

\* --------------------------- CAIEngineService.run_full_pipeline_streaming
\* The streaming loop, read through the endpoint's event_stream.  It takes
\* constitution and max_rounds as the batch loop does.
VARIABLES
    s_pc,                       \* where the generator stands; "idle" when not run
    events,                     \* the events delivered to the consumer so far
    s_initial_text,
    s_round_num,
    s_current_response,
    s_rounds,
    s_all_principles_triggered,
    s_critiques,
    s_principles_triggered,
    s_idx,                      \* position of the inner loop in const.principles
    s_eval_log,                 \* what each evaluation call of the round did
    s_rev_log,                  \* per round recorded, what became of the revision call
    s_failed,                   \* the call whose exception left the generator
    s_reader,                   \* the consumer of the events: "reading" or "stopped"
    s_calls,                    \* generation calls issued so far
    s_inflight                  \* generation calls issued and not yet ended

svars == <<s_pc, events, s_initial_text, s_round_num, s_current_response, s_rounds,
           s_all_principles_triggered, s_critiques, s_principles_triggered, s_idx,
           s_eval_log, s_rev_log, s_failed, s_reader, s_calls,
           s_inflight>>

\* the streaming loop before it is called
StreamFresh ==
    /\ events = <<>>
    /\ s_initial_text = <<>>
    /\ s_round_num = 0
    /\ s_current_response = <<>>
    /\ s_rounds = <<>>
    /\ s_all_principles_triggered = <<>>
    /\ s_critiques = <<>>
    /\ s_principles_triggered = <<>>
    /\ s_idx = 0
    /\ s_eval_log = <<>>
    /\ s_rev_log = <<>>
    /\ s_failed = "none"
    /\ s_reader = "reading"
    /\ s_calls = 0
    /\ s_inflight = 0

\* ------------------------------------- Constitution's mutating operations
\* One Constitution object and the calls made on it.
VARIABLES
    m_principles,       \* self.principles
    m_updated_at,       \* self.updated_at
    m_now,              \* what datetime.utcnow() returns
    m_last              \* the last call: operation, ids given, whether it raised, what it returned

mvars == <<m_principles, m_updated_at, m_now, m_last>>

NoCall == [op |-> "none", ids |-> <<>>, raised |-> FALSE, returned |-> FALSE]

\* no Constitution object is operated on
MutFresh ==
    /\ m_principles = <<>>
    /\ m_updated_at = 0
    /\ m_now = 0
    /\ m_last = NoCall

\* ------------------------------------------- the confidence of one round
\* One round taken alone: its input, the critiques that triggered in it and
\* the confidence either loop records for it.
VARIABLES
    f_pc,               \* "idle", "input", "batch" or "stream"
    f_triggered,        \* how many critiques of the round triggered
    f_original,         \* the round's input response
    f_confidence        \* the confidence recorded

fvars == <<f_pc, f_triggered, f_original, f_confidence>>

\* no round is looked at alone
ConfFresh ==
    /\ f_pc = "idle"
    /\ f_triggered = 0
    /\ f_original = <<>>
    /\ f_confidence = <<1, 1>>

\* ------------------------------- full_cai_pipeline, compare_constitutions
\* One call of either function: the initial generation, then one
\* constitutional_critique per constitution given.
VARIABLES
    c_pc,               \* "idle", "start", "initial_call", "loops", "done", "raised"
    c_mode,             \* "pipeline" or "compare"
    c_constitutions,    \* the constitutions given, in the order given
    c_initial_calls,    \* initial-response generation calls issued
    c_initial_outcome,  \* "none", "returned" or "failed"
    c_initial,          \* initial_response
    c_task_st,          \* per loop: "scheduled", "running" or "done"
    c_task_result,      \* per loop, the CritiqueResult it returned
    c_completion,       \* the order in which the loops finished
    c_loop_calls,       \* evaluation and revision calls issued by the loops
    c_results           \* what the function returned

cvars == <<c_pc, c_mode, c_constitutions, c_initial_calls, c_initial_outcome, c_initial,
           c_task_st, c_task_result, c_completion, c_loop_calls, c_results>>

\* neither function is called
CompareFresh ==
    /\ c_pc = "idle"
    /\ c_mode = "compare"
    /\ c_constitutions = <<>>
    /\ c_initial_calls = 0
    /\ c_initial_outcome = "none"
    /\ c_initial = <<>>
    /\ c_task_st = <<>>
    /\ c_task_result = <<>>
    /\ c_completion = <<>>
    /\ c_loop_calls = 0
    /\ c_results = <<>>

\* the variables of the operations other than the two loops
\* ------------------------------------------------ two calls of the ratio
\* calculate_text_similarity called on a pair of texts and on the swapped
\* pair
VARIABLES
    t_pc,        \* "idle", "start", "forward", "done"
    t_a,         \* the first text
    t_b,         \* the second text
    t_forward,   \* calculate_text_similarity(t_a, t_b)
    t_backward   \* calculate_text_similarity(t_b, t_a)

tvars == <<t_pc, t_a, t_b, t_forward, t_backward>>

NoRatio == <<-1, 1>>

SimFresh ==
    /\ t_pc = "idle"
    /\ t_a = <<>>
    /\ t_b = <<>>
    /\ t_forward = NoRatio
    /\ t_backward = NoRatio

\* ------------------------------------------- one call of generate_critique
\* generate_critique followed through the parsing of the model output
VARIABLES
    j_pc,        \* "idle", "call", "parse", "done"
    j_text,      \* response_text, the output the generation call returns
    j_result     \* the PrincipleCritique returned

jvars == <<j_pc, j_text, j_result>>

NoParse == [principle_id |-> "none"]

ParseFresh ==
    /\ j_pc = "idle"
    /\ j_text = <<>>
    /\ j_result = NoParse

\* ----------------------------- the loops of one compare_constitutions call
\* The frames of the constitutional_critique coroutines that
\* compare_constitutions runs at once; every variable but the first three is
\* indexed by the position of the loop's constitution.
VARIABLES
    k_constitutions,   \* argument constitutions
    k_max_rounds,      \* argument max_rounds, passed on to every loop
    k_initial,         \* initial_response, read by every loop
    k_pc,              \* "idle", "loop", "gather", "revising", "done"
    k_round_num,       \* round_num
    k_current,         \* current_response
    k_rounds,          \* rounds
    k_triggered,       \* all_triggered_principles
    k_tasks,           \* the critique tasks of the round: "inflight" or "done"
    k_task_result,     \* the PrincipleCritique each task returned
    k_critiques,       \* critiques, once gather has returned
    k_log,             \* the generation outputs the loop has consumed, by round
    k_results          \* the CritiqueResult each loop returned

kvars == <<k_constitutions, k_max_rounds, k_initial, k_pc, k_round_num, k_current,
           k_rounds, k_triggered, k_tasks, k_task_result, k_critiques, k_log,
           k_results>>

LoopsFresh ==
    /\ k_constitutions = <<>>
    /\ k_max_rounds = 0
    /\ k_initial = <<>>
    /\ k_pc = <<>>
    /\ k_round_num = <<>>
    /\ k_current = <<>>
    /\ k_rounds = <<>>
    /\ k_triggered = <<>>
    /\ k_tasks = <<>>
    /\ k_task_result = <<>>
    /\ k_critiques = <<>>
    /\ k_log = <<>>
    /\ k_results = <<>>

yvars == <<tvars, jvars, kvars>>

YFresh == SimFresh /\ ParseFresh /\ LoopsFresh

xvars == <<mvars, fvars, cvars, yvars>>

XFresh == MutFresh /\ ConfFresh /\ CompareFresh /\ YFresh

NoCritique == [principle_id |-> "none", principle_name |-> <<"none">>, triggered |-> FALSE,
               critique_text |-> <<>>, severity |-> <<0, 1>>, suggestions |-> <<>>]

NoResult == [total_rounds |-> -1]

TaskIds == 1..Len(enabled_principles)

Init ==
    /\ constitution \in Constitutions
    /\ max_rounds \in 0..MaxRoundsBound
    /\ convergence_threshold \in Thresholds
    /\ initial_response \in Texts
    /\ enabled_principles = get_enabled_principles(constitution)
    /\ pc = "loop"
    /\ round_num = 0
    /\ current_response = initial_response
    /\ rounds = <<>>
    /\ all_triggered_principles = {}
    /\ task_st = <<>>
    /\ task_result = <<>>
    /\ completion = <<>>
    /\ critiques = <<>>
    /\ round_triggered = <<>>
    /\ loop_exit = "none"
    /\ eval_log = <<>>
    /\ rev_log = <<>>
    /\ result = NoResult
    /\ s_pc = "idle"
    /\ StreamFresh
    /\ XFresh

\* a mutant of range_has_next: one round too many
range_has_next_inclusive(n, stop) == n <= stop

\* for round_num in range(max_rounds): is there a next index
range_has_next(n, stop) == n < stop

\* a mutant of gather_done: the first completed task ends the wait
gather_done_first(st) == st = <<>> \/ \E i \in 1..Len(st) : st[i] = "done"

\* await asyncio.gather(*critique_tasks) resumes when every task is done
gather_done(st) == \A i \in 1..Len(st) : st[i] = "done"

\* a mutant of gather: the results in the order the tasks completed
gather_completion_order(results, order) == [k \in 1..Len(order) |-> results[order[k]]]

\* asyncio.gather returns the results in the order of its arguments
gather(results, order) == [k \in 1..Len(results) |-> results[k]]

\* a mutant of next_current: the revision is never promoted
next_current_stale(current, revised, similar) == current

\* a mutant of next_current: the converging revision is promoted too
next_current_promoting(current, revised, similar) == revised

\* current_response after the convergence check of a round
next_current(current, revised, similar) == IF similar THEN current ELSE revised

\* a mutant of converges: > in place of >=
converges_strict(similarity, threshold) == ~RatGE(threshold, similarity)

\* if similarity >= convergence_threshold
converges(similarity, threshold) == RatGE(similarity, threshold)

\* a mutant of update_triggered: the set is replaced, not extended
update_triggered_replacing(all, triggered_names) == Range(triggered_names)

\* all_triggered_principles.update(round_triggered)
update_triggered(all, triggered_names) == all \cup Range(triggered_names)

\* a mutant of converged_flag: set by the break itself
converged_flag_by_break(n_rounds, stop, exit) == exit = "break"

\* a mutant of converged_flag: <= in place of <
converged_flag_inclusive(n_rounds, stop, exit) == n_rounds <= stop

\* converged=len(rounds) < max_rounds
converged_flag(n_rounds, stop, exit) == n_rounds < stop

\* the loop body starts: one generate_critique task per enabled principle
RoundStart ==
    /\ pc = "loop"
    /\ range_has_next(round_num, max_rounds)
    /\ pc' = "gather"
    /\ task_st' = [i \in TaskIds |-> "scheduled"]
    /\ task_result' = [i \in TaskIds |-> NoCritique]
    /\ completion' = <<>>
    /\ eval_log' = Append(eval_log, [i \in TaskIds |-> "pending"])
    /\ UNCHANGED <<svars, xvars>>
    /\ UNCHANGED <<args, round_num, current_response, rounds, all_triggered_principles,
                   critiques, round_triggered, loop_exit, rev_log, result>>

\* a task reaches its client.messages.create call
EvalCall(i) ==
    /\ task_st[i] = "scheduled"
    /\ task_st' = [task_st EXCEPT ![i] = "inflight"]
    /\ UNCHANGED <<svars, xvars>>
    /\ UNCHANGED <<args, pc, round_num, current_response, rounds,
                   all_triggered_principles, task_result, completion, critiques,
                   round_triggered, loop_exit, eval_log, rev_log, result>>

\* the call of a task ends and generate_critique returns (or raises, which
\* gather passes on to the loop at once)
EvalReturn(i, outcome) ==
    /\ task_st[i] = "inflight"
    /\ LET r == generate_critique(enabled_principles[i], outcome)
       IN  /\ task_st' = [task_st EXCEPT ![i] = "done"]
           /\ task_result' = [task_result EXCEPT ![i] = IF r.raised THEN NoCritique ELSE r.value]
           /\ pc' = IF r.raised /\ pc = "gather" THEN "raised" ELSE pc
    /\ completion' = Append(completion, i)
    /\ eval_log' = [eval_log EXCEPT ![Len(eval_log)][i] = outcome]
    /\ UNCHANGED <<svars, xvars>>
    /\ UNCHANGED <<args, round_num, current_response, rounds, all_triggered_principles,
                   critiques, round_triggered, loop_exit, rev_log, result>>

\* steps 3 to 5 of the loop body: record the round, check for convergence
FinishRound(revision, cs, rt) ==
    LET similarity == calculate_text_similarity(current_response, revision.text)
        similar == converges(similarity, convergence_threshold)
    IN  /\ rounds' = Append(rounds,
                [round_number |-> round_num,
                 input_response |-> current_response,
                 critiques |-> cs,
                 revised_response |-> revision.text,
                 principles_triggered |-> rt,
                 confidence |-> revision.confidence,
                 diff_summary |-> generate_diff_summary(current_response, revision.text)])
        /\ current_response' = next_current(current_response, revision.text, similar)
        /\ IF similar
              THEN /\ pc' = "return"
                   /\ loop_exit' = "break"
                   /\ UNCHANGED round_num
              ELSE /\ pc' = "loop"
                   /\ round_num' = round_num + 1
                   /\ UNCHANGED loop_exit

\* gather returns: the triggered principles are tracked and generate_revision
\* is called; with no triggered critique it returns without a generation call
\* and the round is finished in the same step
AfterGather ==
    /\ pc = "gather"
    /\ gather_done(task_st)
    /\ LET cs == gather(task_result, completion)
           tr == triggered_critiques(cs)
           rt == [k \in 1..Len(tr) |-> tr[k].principle_name]
       IN  /\ critiques' = cs
           /\ round_triggered' = rt
           /\ all_triggered_principles' = update_triggered(all_triggered_principles, rt)
           /\ IF needs_generation(cs)
                 THEN /\ pc' = "revising"
                      /\ rev_log' = Append(rev_log, "inflight")
                      /\ UNCHANGED <<round_num, current_response, rounds, loop_exit>>
                 ELSE /\ FinishRound(revision_unchanged(current_response).value, cs, rt)
                      /\ rev_log' = Append(rev_log, "no_call")
    /\ UNCHANGED <<svars, xvars>>
    /\ UNCHANGED <<args, task_st, task_result, completion, eval_log, result>>

\* the generation call of generate_revision ends
RevReturn(outcome) ==
    /\ pc = "revising"
    /\ rev_log' = [rev_log EXCEPT ![Len(rev_log)] = IF outcome.ok THEN "returned" ELSE "failed"]
    /\ LET r == generate_revision_call(current_response, critiques, outcome)
       IN  IF r.raised
              THEN /\ pc' = "raised"
                   /\ UNCHANGED <<round_num, current_response, rounds, loop_exit>>
              ELSE FinishRound(r.value, critiques, round_triggered)
    /\ UNCHANGED <<svars, xvars>>
    /\ UNCHANGED <<args, all_triggered_principles, task_st, task_result, completion,
                   critiques, round_triggered, eval_log, result>>

\* range(max_rounds) is exhausted
LoopEnd ==
    /\ pc = "loop"
    /\ ~range_has_next(round_num, max_rounds)
    /\ pc' = "return"
    /\ loop_exit' = "exhausted"
    /\ UNCHANGED <<svars, xvars>>
    /\ UNCHANGED <<args, round_num, current_response, rounds, all_triggered_principles,
                   task_st, task_result, completion, critiques, round_triggered,
                   eval_log, rev_log, result>>

\* the code after the loop
Return ==
    /\ pc = "return"
    /\ pc' = "done"
    /\ LET initial_similarity == calculate_text_similarity(initial_response, current_response)
       IN  result' = [original |-> initial_response,
                      final |-> current_response,
                      prompt |-> "prompt",
                      rounds |-> rounds,
                      total_rounds |-> Len(rounds),
                      constitution_id |-> constitution.id,
                      constitution_name |-> constitution.name,
                      converged |-> converged_flag(Len(rounds), max_rounds, loop_exit),
                      total_principles_triggered |-> all_triggered_principles,
                      improvement_score |->
                          <<initial_similarity[2] - initial_similarity[1], initial_similarity[2]>>]
    /\ UNCHANGED <<svars, xvars>>
    /\ UNCHANGED <<args, round_num, current_response, rounds, all_triggered_principles,
                   task_st, task_result, completion, critiques, round_triggered,
                   loop_exit, eval_log, rev_log>>

Next ==
    \/ RoundStart
    \/ \E i \in DOMAIN task_st : EvalCall(i)
    \/ \E i \in DOMAIN task_st, outcome \in CritiqueOutcomes : EvalReturn(i, outcome)
    \/ AfterGather
    \/ \E outcome \in RevisionOutcomes : RevReturn(outcome)
    \/ LoopEnd
    \/ Return

Spec == Init /\ [][Next]_vars

\* The runs whose termination is checked: the principles in the order of
\* the pool (each enabled or not) and one initial response; every
\* max_rounds, every threshold, every outcome of every call.
LiveInit ==
    /\ Init
    /\ \A n \in 1..Len(constitution.principles) :
          constitution.principles[n].id = PrincipleIdPool[n]
    /\ initial_response = <<"a">>

\* every generation call eventually returns or fails, and the event loop
\* keeps running whatever is ready to run
FairSpec == LiveInit /\ [][Next]_vars /\ WF_vars(Next)


\* ----------------------------------------- run_full_pipeline_streaming
\* What a plain text generation call (initial response, revision) can do.
GenerationOutcomes == RevisionOutcomes

Event(type, round, data) == [type |-> type, round |-> round, data |-> data]

NoData == [none |-> TRUE]

TerminalTypes == {"complete", "error"}

\* FullPipelineRequest.max_rounds: Field(ge=1, le=5)
MinMaxRounds == 1

\* a mutant of deliver_error: the endpoint has no except clause
deliver_error_missing(evs, e) == evs

\* event_stream: an exception leaving the generator becomes an error event
deliver_error(evs, e) == Append(evs, Event("error", 0, [error |-> e]))

\* a mutant of revising_events: the revising event is not yielded
revising_events_missing(n) == <<>>

\* the event yielded before the revision call of round index n
revising_events(n) == <<Event("revising", n + 1, NoData)>>

\* a mutant of should_revise: the round is revised whatever the critiques
should_revise_always(cs) == TRUE

\* if not critiques: ... break; a round is revised when a critique triggered
should_revise(cs) == cs # <<>>

\* "confidence": 1.0 - (len(critiques) * 0.1)
stream_confidence(n) == <<10 - n, 10>>

\* a mutant of stream_total_rounds: the loop index in place of the length
stream_total_rounds_by_index(rs, n) == n

\* "total_rounds": len(rounds)
stream_total_rounds(rs, n) == Len(rs)

\* the try block around the parsing of one evaluation: the critiques it
\* appends (one when the payload says triggered, none otherwise; a parse
\* error is passed over)
stream_parse_critique(principle, outcome) ==
    IF outcome \in {"no_json", "bad_json"} THEN <<>>
    ELSE LET critique_data == Payload(outcome)
         IN  IF critique_data.triggered
                THEN <<[principle_id |-> principle.id,
                        principle_name |-> principle.name,
                        triggered |-> TRUE,
                        critique_text |-> critique_data.critique,
                        severity |-> critique_data.severity,
                        suggestions |-> critique_data.suggestions]>>
                ELSE <<>>

\* a mutant of stream_converged: the round-count proxy of the batch loop
stream_converged_by_count(rs, stop) == Len(rs) < stop

\* converged of the complete event:
\* len(rounds) < max_rounds or not rounds[-1]["critiques"]
stream_converged(rs, stop) == Len(rs) < stop \/ rs[Len(rs)].critiques = <<>>

\* a mutant of stream_next_current: the revision is not promoted
stream_next_current_stale(current, revised_text) == current

\* current_response = revised_text, after every revised round
stream_next_current(current, revised_text) == revised_text

\* the result carried by the complete event; rounds[-1] of an empty list
\* raises
stream_result(rs, n) ==
    IF ~(Len(rs) < max_rounds) /\ rs = <<>> THEN Raised("list index out of range")
    ELSE Returned([original |-> s_initial_text,
                   final |-> s_current_response,
                   prompt |-> "prompt",
                   rounds |-> rs,
                   total_rounds |-> stream_total_rounds(rs, n),
                   constitution_id |-> constitution.id,
                   constitution_name |-> constitution.name,
                   converged |-> stream_converged(rs, max_rounds),
                   total_principles_triggered |-> Range(s_all_principles_triggered),
                   improvement_score |-> <<0, 1>>])

StreamInit ==
    /\ constitution \in Constitutions
    /\ max_rounds \in MinMaxRounds..MaxRoundsBound
    /\ convergence_threshold = DefaultThreshold
    /\ initial_response = <<>>
    /\ enabled_principles = <<>>
    /\ pc = "idle"
    /\ round_num = 0
    /\ current_response = <<>>
    /\ rounds = <<>>
    /\ all_triggered_principles = {}
    /\ task_st = <<>>
    /\ task_result = <<>>
    /\ completion = <<>>
    /\ critiques = <<>>
    /\ round_triggered = <<>>
    /\ loop_exit = "none"
    /\ eval_log = <<>>
    /\ rev_log = <<>>
    /\ result = NoResult
    /\ s_pc = "start"
    /\ StreamFresh
    /\ XFresh

\* a mutant of resumable: the generator runs on as a task of its own
resumable_detached(reader) == TRUE

\* async for event in engine.run_full_pipeline_streaming(...): the body of
\* the generator runs only while its consumer awaits the next event
resumable(reader) == reader = "reading"

\* the consumer stops reading: between two events, or while it waits for
\* one (the call then executing is the last)
SStop ==
    /\ s_pc \notin {"idle", "closed"}
    /\ s_reader = "reading"
    /\ s_reader' = "stopped"
    /\ UNCHANGED <<s_pc, events, s_initial_text, s_round_num, s_current_response,
                   s_rounds, s_all_principles_triggered, s_critiques,
                   s_principles_triggered, s_idx, s_eval_log, s_rev_log, s_failed,
                   s_calls, s_inflight>>
    /\ UNCHANGED <<vars, xvars>>

\* yield generating; the initial generation call is issued
SGenerating ==
    /\ resumable(s_reader)
    /\ s_pc = "start"
    /\ events' = Append(events, Event("generating", 0, NoData))
    /\ s_pc' = "initial_call"
    /\ UNCHANGED <<s_initial_text, s_round_num, s_current_response, s_rounds,
                   s_all_principles_triggered, s_critiques, s_principles_triggered,
                   s_idx, s_eval_log, s_rev_log, s_failed>>
    /\ s_calls' = s_calls + 1
    /\ s_inflight' = s_inflight + 1
    /\ UNCHANGED s_reader
    /\ UNCHANGED <<vars, xvars>>

\* the initial generation call ends; yield generated, or the exception
\* leaves the generator
SGenerated(outcome) ==
    /\ resumable(s_reader)
    /\ s_pc = "initial_call"
    /\ IF outcome.ok
          THEN /\ s_initial_text' = outcome.text
               /\ s_current_response' = outcome.text
               /\ events' = Append(events,
                                Event("generated", 0, [response |-> outcome.text]))
               /\ s_pc' = "loop"
               /\ UNCHANGED s_failed
          ELSE /\ events' = deliver_error(events, "generation failed")
               /\ s_pc' = "closed"
               /\ s_failed' = "initial"
               /\ UNCHANGED <<s_initial_text, s_current_response>>
    /\ UNCHANGED <<s_round_num, s_rounds, s_all_principles_triggered, s_critiques,
                   s_principles_triggered, s_idx, s_eval_log, s_rev_log>>
    /\ s_inflight' = s_inflight - 1
    /\ UNCHANGED s_calls
    /\ UNCHANGED s_reader
    /\ UNCHANGED <<vars, xvars>>

\* the loop body starts: yield critiquing
SRoundStart ==
    /\ resumable(s_reader)
    /\ s_pc = "loop"
    /\ range_has_next(s_round_num, max_rounds)
    /\ events' = Append(events, Event("critiquing", s_round_num + 1, NoData))
    /\ s_critiques' = <<>>
    /\ s_principles_triggered' = <<>>
    /\ s_idx' = 1
    /\ s_eval_log' = <<>>
    /\ s_pc' = "principles"
    /\ UNCHANGED <<s_initial_text, s_round_num, s_current_response, s_rounds,
                   s_all_principles_triggered, s_rev_log, s_failed>>
    /\ UNCHANGED <<s_calls, s_inflight>>
    /\ UNCHANGED s_reader
    /\ UNCHANGED <<vars, xvars>>

\* for principle in const.principles: a disabled one is skipped, for an
\* enabled one the evaluation call is issued
SNextPrinciple ==
    /\ resumable(s_reader)
    /\ s_pc = "principles"
    /\ s_idx <= Len(constitution.principles)
    /\ IF constitution.principles[s_idx].enabled
          THEN s_pc' = "evaluation_call" /\ UNCHANGED s_idx
          ELSE s_idx' = s_idx + 1 /\ UNCHANGED s_pc
    /\ UNCHANGED <<events, s_initial_text, s_round_num, s_current_response, s_rounds,
                   s_all_principles_triggered, s_critiques, s_principles_triggered,
                   s_eval_log, s_rev_log, s_failed>>
    /\ IF constitution.principles[s_idx].enabled
          THEN s_calls' = s_calls + 1 /\ s_inflight' = s_inflight + 1
          ELSE UNCHANGED <<s_calls, s_inflight>>
    /\ UNCHANGED s_reader
    /\ UNCHANGED <<vars, xvars>>

\* the evaluation call ends: its exception leaves the generator, its output
\* is parsed inside the try block
SEvalReturn(outcome) ==
    /\ resumable(s_reader)
    /\ s_pc = "evaluation_call"
    /\ s_eval_log' = Append(s_eval_log, outcome)
    /\ IF outcome = "api_error"
          THEN /\ events' = deliver_error(events, "generation failed")
               /\ s_pc' = "closed"
               /\ s_failed' = "evaluation"
               /\ UNCHANGED <<s_critiques, s_principles_triggered, s_idx>>
          ELSE LET added == stream_parse_critique(constitution.principles[s_idx], outcome)
               IN  /\ s_critiques' = s_critiques \o added
                   /\ s_principles_triggered' =
                         s_principles_triggered \o [k \in 1..Len(added) |-> added[k].principle_id]
                   /\ s_idx' = s_idx + 1
                   /\ s_pc' = "principles"
                   /\ UNCHANGED <<events, s_failed>>
    /\ UNCHANGED <<s_initial_text, s_round_num, s_current_response, s_rounds,
                   s_all_principles_triggered, s_rev_log>>
    /\ s_inflight' = s_inflight - 1
    /\ UNCHANGED s_calls
    /\ UNCHANGED s_reader
    /\ UNCHANGED <<vars, xvars>>

\* the inner loop is over: yield critiqued
SCritiqued ==
    /\ resumable(s_reader)
    /\ s_pc = "principles"
    /\ s_idx > Len(constitution.principles)
    /\ events' = Append(events,
                    Event("critiqued", s_round_num + 1,
                          [critiques |-> s_critiques,
                           principles_triggered |-> s_principles_triggered]))
    /\ s_pc' = "critiqued"
    /\ UNCHANGED <<s_initial_text, s_round_num, s_current_response, s_rounds,
                   s_all_principles_triggered, s_critiques, s_principles_triggered,
                   s_idx, s_eval_log, s_rev_log, s_failed>>
    /\ UNCHANGED <<s_calls, s_inflight>>
    /\ UNCHANGED s_reader
    /\ UNCHANGED <<vars, xvars>>

\* with no critique the round is recorded unrevised and the loop is left;
\* otherwise yield revising and issue the revision call
SAfterCritiqued ==
    /\ resumable(s_reader)
    /\ s_pc = "critiqued"
    /\ IF should_revise(s_critiques)
          THEN /\ events' = events \o revising_events(s_round_num)
               /\ s_pc' = "revision_call"
               /\ UNCHANGED <<s_rounds, s_rev_log>>
          ELSE /\ s_rounds' = Append(s_rounds,
                      [round_number |-> s_round_num,
                       input_response |-> s_current_response,
                       critiques |-> s_critiques,
                       revised_response |-> s_current_response,
                       principles_triggered |-> s_principles_triggered,
                       confidence |-> <<1, 1>>,
                       diff_summary |-> <<"No changes needed">>])
               /\ s_rev_log' = Append(s_rev_log, "no_call")
               /\ s_pc' = "complete"
               /\ UNCHANGED events
    /\ UNCHANGED <<s_initial_text, s_round_num, s_current_response,
                   s_all_principles_triggered, s_critiques, s_principles_triggered,
                   s_idx, s_eval_log, s_failed>>
    /\ IF should_revise(s_critiques)
          THEN s_calls' = s_calls + 1 /\ s_inflight' = s_inflight + 1
          ELSE UNCHANGED <<s_calls, s_inflight>>
    /\ UNCHANGED s_reader
    /\ UNCHANGED <<vars, xvars>>

\* the revision call ends: yield revised, or the exception leaves the generator
SRevised(outcome) ==
    /\ resumable(s_reader)
    /\ s_pc = "revision_call"
    /\ IF outcome.ok
          THEN /\ events' = Append(events,
                                Event("revised", s_round_num + 1,
                                      [revised_response |-> outcome.text]))
               /\ s_pc' = "revised"
               /\ UNCHANGED <<s_failed, s_rev_log>>
          ELSE /\ events' = deliver_error(events, "generation failed")
               /\ s_pc' = "closed"
               /\ s_failed' = "revision"
               /\ s_rev_log' = Append(s_rev_log, "failed")
    /\ UNCHANGED <<s_initial_text, s_round_num, s_current_response, s_rounds,
                   s_all_principles_triggered, s_critiques, s_principles_triggered,
                   s_idx, s_eval_log>>
    /\ s_inflight' = s_inflight - 1
    /\ UNCHANGED s_calls
    /\ UNCHANGED s_reader
    /\ UNCHANGED <<vars, xvars>>

\* the generator is resumed after revised: the round is recorded, the
\* revision becomes the current response
SRecordRound ==
    /\ resumable(s_reader)
    /\ s_pc = "revised"
    /\ LET revised_text == events[Len(events)].data.revised_response
       IN  /\ s_rounds' = Append(s_rounds,
                  [round_number |-> s_round_num,
                   input_response |-> s_current_response,
                   critiques |-> s_critiques,
                   revised_response |-> revised_text,
                   principles_triggered |-> s_principles_triggered,
                   confidence |-> stream_confidence(Len(s_critiques)),
                   diff_summary |-> <<"Addressed principle(s)", Len(s_critiques)>>])
           /\ s_current_response' = stream_next_current(s_current_response, revised_text)
    /\ s_rev_log' = Append(s_rev_log, "returned")
    /\ s_all_principles_triggered' = s_all_principles_triggered \o s_principles_triggered
    /\ s_round_num' = s_round_num + 1
    /\ s_pc' = "loop"
    /\ UNCHANGED <<events, s_initial_text, s_critiques, s_principles_triggered, s_idx,
                   s_eval_log, s_failed>>
    /\ UNCHANGED <<s_calls, s_inflight>>
    /\ UNCHANGED s_reader
    /\ UNCHANGED <<vars, xvars>>

\* range(max_rounds) is exhausted
SLoopEnd ==
    /\ resumable(s_reader)
    /\ s_pc = "loop"
    /\ ~range_has_next(s_round_num, max_rounds)
    /\ s_pc' = "complete"
    /\ UNCHANGED <<events, s_initial_text, s_round_num, s_current_response, s_rounds,
                   s_all_principles_triggered, s_critiques, s_principles_triggered,
                   s_idx, s_eval_log, s_rev_log, s_failed>>
    /\ UNCHANGED <<s_calls, s_inflight>>
    /\ UNCHANGED s_reader
    /\ UNCHANGED <<vars, xvars>>

\* yield complete; the generator ends
SComplete ==
    /\ resumable(s_reader)
    /\ s_pc = "complete"
    /\ LET r == stream_result(s_rounds, s_round_num)
       IN  IF r.raised
              THEN /\ events' = deliver_error(events, r.value)
                   /\ s_failed' = "result"
              ELSE /\ events' = Append(events, Event("complete", 0, [result |-> r.value]))
                   /\ UNCHANGED s_failed
    /\ s_pc' = "closed"
    /\ UNCHANGED <<s_initial_text, s_round_num, s_current_response, s_rounds,
                   s_all_principles_triggered, s_critiques, s_principles_triggered,
                   s_idx, s_eval_log, s_rev_log>>
    /\ UNCHANGED <<s_calls, s_inflight>>
    /\ UNCHANGED s_reader
    /\ UNCHANGED <<vars, xvars>>

StreamNext ==
    \/ SGenerating
    \/ \E outcome \in GenerationOutcomes : SGenerated(outcome)
    \/ SRoundStart
    \/ SNextPrinciple
    \/ \E outcome \in CritiqueOutcomes : SEvalReturn(outcome)
    \/ SCritiqued
    \/ SAfterCritiqued
    \/ \E outcome \in GenerationOutcomes : SRevised(outcome)
    \/ SRecordRound
    \/ SLoopEnd
    \/ SComplete
    \/ SStop

StreamSpec == StreamInit /\ [][StreamNext]_svars

\* either loop: the batch loop called directly, or the streaming endpoint
BothInit == Init \/ StreamInit

BothNext == Next \/ StreamNext

BothSpec == BothInit /\ [][BothNext]_<<vars, svars>>


\* ------------------------------------- Constitution's mutating operations
MaxMutPrinciples == 3
MaxIdList == 3
MaxClock == 2

\* the ids a call may name: one more than a constitution is built with
MutIds == {PrincipleIdPool[k] : k \in 1..(MaxMutPrinciples + 1)}

Ids(ps) == [k \in 1..Len(ps) |-> ps[k].id]

Distinct(seq) == \A a, b \in 1..Len(seq) : (seq[a] = seq[b]) => a = b

\* the principle lists a Constitution is built with: pairwise distinct ids
MutPrincipleLists ==
    {ps \in UNION {[1..n -> {Principle(id, TRUE) : id \in MutIds}] : n \in 0..MaxMutPrinciples} :
        Distinct(Ids(ps))}

IdLists == UNION {[1..n -> MutIds] : n \in 0..MaxIdList}

\* for i, p in enumerate(self.principles): if p.id == principle_id; 0 for None
FirstIndex(ps, id) ==
    IF \E k \in 1..Len(ps) : ps[k].id = id
        THEN CHOOSE k \in 1..Len(ps) :
                 /\ ps[k].id = id
                 /\ \A n \in 1..(k - 1) : ps[n].id # id
    ELSE 0

\* {p.id: p for p in self.principles}: a later principle replaces an earlier
\* one of the same id
LastIndex(ps, id) ==
    CHOOSE k \in 1..Len(ps) :
        /\ ps[k].id = id
        /\ \A n \in (k + 1)..Len(ps) : ps[n].id # id

Pop(ps, i) == [k \in 1..(Len(ps) - 1) |-> IF k < i THEN ps[k] ELSE ps[k + 1]]

\* a mutant of add_principle: the duplicate is appended all the same
add_principle_unchecked(ps, principle) == Returned(Append(ps, principle))

\* Constitution.add_principle: the new list, or the ValueError
add_principle(ps, principle) ==
    IF FirstIndex(ps, principle.id) # 0 THEN Raised("already exists")
    ELSE Returned(Append(ps, principle))

\* a mutant of remove_principle: every principle of that id is removed
remove_principle_all(ps, id) ==
    IF FirstIndex(ps, id) # 0
        THEN [removed |-> TRUE, principles |-> SelectSeq(ps, LAMBDA q : q.id # id)]
    ELSE [removed |-> FALSE, principles |-> ps]

\* Constitution.remove_principle: what it returns and the list it leaves
remove_principle(ps, id) ==
    IF FirstIndex(ps, id) # 0
        THEN [removed |-> TRUE, principles |-> Pop(ps, FirstIndex(ps, id))]
    ELSE [removed |-> FALSE, principles |-> ps]

\* a mutant of reorder_principles: the principles not named keep their place
\* at the end
reorder_principles_keeping(ps, ids) ==
    LET present == SelectSeq(ids, LAMBDA id : FirstIndex(ps, id) # 0)
    IN  [k \in 1..Len(present) |-> ps[LastIndex(ps, present[k])]]
            \o SelectSeq(ps, LAMBDA q : \A k \in 1..Len(ids) : ids[k] # q.id)

\* Constitution.reorder_principles: the list it assigns
reorder_principles(ps, ids) ==
    LET present == SelectSeq(ids, LAMBDA id : FirstIndex(ps, id) # 0)
    IN  [k \in 1..Len(present) |-> ps[LastIndex(ps, present[k])]]

\* everything but the Constitution object
m_others == <<vars, svars, fvars, cvars, yvars>>

Call(op, ids, raised, returned) ==
    [op |-> op, ids |-> ids, raised |-> raised, returned |-> returned]

\* neither loop is running
LoopsIdle ==
    /\ constitution = [id |-> "c1", name |-> "constitution c1", principles |-> <<>>]
    /\ max_rounds = 0
    /\ convergence_threshold = DefaultThreshold
    /\ initial_response = <<>>
    /\ enabled_principles = <<>>
    /\ pc = "idle"
    /\ round_num = 0
    /\ current_response = <<>>
    /\ rounds = <<>>
    /\ all_triggered_principles = {}
    /\ task_st = <<>>
    /\ task_result = <<>>
    /\ completion = <<>>
    /\ critiques = <<>>
    /\ round_triggered = <<>>
    /\ loop_exit = "none"
    /\ eval_log = <<>>
    /\ rev_log = <<>>
    /\ result = NoResult
    /\ s_pc = "idle"
    /\ StreamFresh

\* a Constitution as constructed: updated_at defaults to the time of
\* construction
MutInit ==
    /\ LoopsIdle
    /\ ConfFresh
    /\ CompareFresh
    /\ YFresh
    /\ m_principles \in MutPrincipleLists
    /\ m_updated_at = 0
    /\ m_now = 0
    /\ m_last = NoCall

\* time passes between two calls
Tick ==
    /\ m_now < MaxClock
    /\ m_now' = m_now + 1
    /\ UNCHANGED <<m_principles, m_updated_at, m_last>>
    /\ UNCHANGED m_others

AddPrinciple(principle) ==
    /\ LET r == add_principle(m_principles, principle)
       IN  IF r.raised
              THEN /\ m_last' = Call("add", <<principle.id>>, TRUE, FALSE)
                   /\ UNCHANGED <<m_principles, m_updated_at>>
              ELSE /\ m_principles' = r.value
                   /\ m_updated_at' = m_now
                   /\ m_last' = Call("add", <<principle.id>>, FALSE, FALSE)
    /\ UNCHANGED m_now
    /\ UNCHANGED m_others

RemovePrinciple(id) ==
    /\ LET r == remove_principle(m_principles, id)
       IN  /\ m_principles' = r.principles
           /\ m_updated_at' = IF r.removed THEN m_now ELSE m_updated_at
           /\ m_last' = Call("remove", <<id>>, FALSE, r.removed)
    /\ UNCHANGED m_now
    /\ UNCHANGED m_others

ReorderPrinciples(ids) ==
    /\ m_principles' = reorder_principles(m_principles, ids)
    /\ m_updated_at' = m_now
    /\ m_last' = Call("reorder", ids, FALSE, FALSE)
    /\ UNCHANGED m_now
    /\ UNCHANGED m_others

MutNext ==
    \/ Tick
    \/ \E id \in MutIds : AddPrinciple(Principle(id, TRUE))
    \/ \E id \in MutIds : RemovePrinciple(id)
    \/ \E ids \in IdLists : ReorderPrinciples(ids)

MutSpec == MutInit /\ [][MutNext]_mvars


\* ------------------------------------------- the confidence of one round
MaxTriggered == 12

\* n critiques that triggered, as generate_critique returns them
TriggeredCritiques(n) ==
    [k \in 1..n |-> generate_critique(Principle(PrincipleIdPool[1], TRUE), "triggered").value]

\* everything but the round looked at alone
f_others == <<vars, svars, mvars, cvars, yvars>>

ConfInit ==
    /\ LoopsIdle
    /\ MutFresh
    /\ CompareFresh
    /\ YFresh
    /\ f_pc = "input"
    /\ f_triggered \in 0..MaxTriggered
    /\ f_original \in Texts
    /\ f_confidence = <<1, 1>>

\* the batch loop's round: the confidence generate_revision returns
BatchConfidence(outcome) ==
    /\ f_pc = "input"
    /\ LET cs == TriggeredCritiques(f_triggered)
           revision == IF needs_generation(cs)
                          THEN generate_revision_call(f_original, cs, outcome).value
                       ELSE revision_unchanged(f_original).value
       IN  f_confidence' = revision.confidence
    /\ f_pc' = "batch"
    /\ UNCHANGED <<f_triggered, f_original>>
    /\ UNCHANGED f_others

\* the streaming loop's round: 1.0 without critiques, else what it computes
\* from their number
StreamConfidence ==
    /\ f_pc = "input"
    /\ f_confidence' = IF should_revise(TriggeredCritiques(f_triggered))
                          THEN stream_confidence(f_triggered)
                       ELSE <<1, 1>>
    /\ f_pc' = "stream"
    /\ UNCHANGED <<f_triggered, f_original>>
    /\ UNCHANGED f_others

ConfNext ==
    \/ \E outcome \in RevisionOutcomes : BatchConfidence(outcome)
    \/ StreamConfidence

ConfSpec == ConfInit /\ [][ConfNext]_fvars


\* ------------------------------- full_cai_pipeline, compare_constitutions
MaxConstitutions == 3
MaxLoopCalls == 2

ConstitutionIdPool == <<"c1", "c2", "c3", "c4">>

\* the constitutions given to compare_constitutions: any list, an id may
\* occur twice
ConstitutionLists ==
    UNION {[1..n -> {[id |-> ConstitutionIdPool[k],
                      name |-> <<"constitution", ConstitutionIdPool[k]>>] :
                         k \in 1..MaxConstitutions}] : n \in 0..MaxConstitutions}

\* the texts the initial generation returns here
InitialTexts == {t \in Texts : Len(t) <= 1}

NoLoopResult == [constitution_id |-> "none", original |-> <<>>, final |-> <<>>,
                 total_rounds |-> -1]

\* a mutant of generate_initial_response: a failed call yields an empty text
generate_initial_response_fallback(outcome) ==
    IF outcome.ok THEN Returned(outcome.text) ELSE Returned(<<>>)

\* generate_initial_response: the text of the message, or RuntimeError
generate_initial_response(outcome) ==
    IF outcome.ok THEN Returned(outcome.text)
    ELSE Raised("Failed to generate initial response")

\* the CritiqueResult constitutional_critique returns, as far as its caller
\* is concerned
loop_result(const, initial, final, n_rounds) ==
    [constitution_id |-> const.id, original |-> initial, final |-> final,
     total_rounds |-> n_rounds]

\* a mutant of compare_results: the results as the loops finished
compare_results_as_completed(results, order) ==
    [k \in 1..Len(order) |-> results[order[k]]]

\* return await asyncio.gather(*tasks)
compare_results(results, order) == gather(results, order)

\* a mutant of initial_calls_needed: one initial response per constitution
initial_calls_per_constitution(constitutions) == Len(constitutions)

\* initial_response = await generate_initial_response(...), once, before the
\* loops are created
initial_calls_needed(constitutions) == 1

\* everything but the call of full_cai_pipeline or compare_constitutions
c_others == <<vars, svars, mvars, fvars, yvars>>

CompareInit ==
    /\ LoopsIdle
    /\ MutFresh
    /\ ConfFresh
    /\ YFresh
    /\ c_pc = "start"
    /\ c_mode \in {"pipeline", "compare"}
    /\ c_constitutions \in ConstitutionLists
    /\ (c_mode = "pipeline") => Len(c_constitutions) = 1
    /\ c_initial_calls = 0
    /\ c_initial_outcome = "none"
    /\ c_initial = <<>>
    /\ c_task_st = <<>>
    /\ c_task_result = <<>>
    /\ c_completion = <<>>
    /\ c_loop_calls = 0
    /\ c_results = <<>>

\* the initial generation call is issued
CInitialCall ==
    /\ c_pc \in {"start", "initial_call"}
    /\ c_initial_calls < initial_calls_needed(c_constitutions)
    /\ c_initial_calls' = c_initial_calls + 1
    /\ c_pc' = "initial_call"
    /\ UNCHANGED <<c_mode, c_constitutions, c_initial_outcome, c_initial, c_task_st,
                   c_task_result, c_completion, c_loop_calls, c_results>>
    /\ UNCHANGED c_others

\* generate_initial_response returns or raises; with a response the loops
\* are created, one per constitution
CInitialReturn(outcome) ==
    /\ c_pc = "initial_call"
    /\ c_initial_calls >= initial_calls_needed(c_constitutions)
    /\ c_initial_outcome' = IF outcome.ok THEN "returned" ELSE "failed"
    /\ LET r == generate_initial_response(outcome)
       IN  IF r.raised
              THEN /\ c_pc' = "raised"
                   /\ UNCHANGED <<c_initial, c_task_st, c_task_result>>
              ELSE /\ c_pc' = "loops"
                   /\ c_initial' = r.value
                   /\ c_task_st' = [i \in 1..Len(c_constitutions) |-> "scheduled"]
                   /\ c_task_result' = [i \in 1..Len(c_constitutions) |-> NoLoopResult]
    /\ UNCHANGED <<c_mode, c_constitutions, c_initial_calls, c_completion, c_loop_calls,
                   c_results>>
    /\ UNCHANGED c_others

\* a loop issues an evaluation or revision call
CLoopCall(i) ==
    /\ c_pc = "loops"
    /\ c_task_st[i] \in {"scheduled", "running"}
    /\ c_loop_calls < MaxLoopCalls
    /\ c_loop_calls' = c_loop_calls + 1
    /\ c_task_st' = [c_task_st EXCEPT ![i] = "running"]
    /\ UNCHANGED <<c_pc, c_mode, c_constitutions, c_initial_calls, c_initial_outcome,
                   c_initial, c_task_result, c_completion, c_results>>
    /\ UNCHANGED c_others

\* a loop returns its CritiqueResult
CLoopReturn(i, n_rounds) ==
    /\ c_pc = "loops"
    /\ c_task_st[i] \in {"scheduled", "running"}
    /\ LET final == IF n_rounds = 0 THEN c_initial ELSE <<"a", "a">>
       IN  c_task_result' = [c_task_result EXCEPT
                                ![i] = loop_result(c_constitutions[i], c_initial, final, n_rounds)]
    /\ c_task_st' = [c_task_st EXCEPT ![i] = "done"]
    /\ c_completion' = Append(c_completion, i)
    /\ UNCHANGED <<c_pc, c_mode, c_constitutions, c_initial_calls, c_initial_outcome,
                   c_initial, c_loop_calls, c_results>>
    /\ UNCHANGED c_others

\* every loop has returned: the function returns
CReturn ==
    /\ c_pc = "loops"
    /\ gather_done(c_task_st)
    /\ c_results' = compare_results(c_task_result, c_completion)
    /\ c_pc' = "done"
    /\ UNCHANGED <<c_mode, c_constitutions, c_initial_calls, c_initial_outcome, c_initial,
                   c_task_st, c_task_result, c_completion, c_loop_calls>>
    /\ UNCHANGED c_others

CompareNext ==
    \/ CInitialCall
    \/ \E outcome \in {o \in GenerationOutcomes : ~o.ok \/ o.text \in InitialTexts} :
          CInitialReturn(outcome)
    \/ \E i \in DOMAIN c_task_st : CLoopCall(i)
    \/ \E i \in DOMAIN c_task_st, n_rounds \in 0..1 : CLoopReturn(i, n_rounds)
    \/ CReturn

CompareSpec == CompareInit /\ [][CompareNext]_cvars


\* ------------------------------- the two loops on the same generation
\* constitutional_critique runs first; run_full_pipeline_streaming is then
\* called with the same constitution and max_rounds, its initial generation
\* returns the batch loop's initial_response, and every evaluation and
\* revision call at a place where the batch loop made one ends as that call
\* ended (the batch loop strips a revision, so the raw text is any text it
\* strips to what the batch round recorded).
PairInit ==
    /\ LiveInit
    /\ max_rounds >= MinMaxRounds
    /\ convergence_threshold = DefaultThreshold

\* the streaming endpoint is called after the batch loop has returned
PStart ==
    /\ pc = "done"
    /\ s_pc = "idle"
    /\ s_pc' = "start"
    /\ UNCHANGED <<events, s_initial_text, s_round_num, s_current_response, s_rounds,
                   s_all_principles_triggered, s_critiques, s_principles_triggered,
                   s_idx, s_eval_log, s_rev_log, s_failed, s_reader, s_calls, s_inflight>>
    /\ UNCHANGED <<vars, xvars>>

\* the evaluation call of the stream's round r for its j-th enabled
\* principle may end with outcome
SameEvaluation(r, j, outcome) ==
    (r <= Len(eval_log) /\ j \in DOMAIN eval_log[r]) => outcome = eval_log[r][j]

\* the revision call of the stream's round r may end with outcome
SameRevision(r, outcome) ==
    (r <= Len(rounds)) =>
        /\ (rev_log[r] = "failed") => ~outcome.ok
        /\ (rev_log[r] = "returned") =>
              (outcome.ok /\ Strip(outcome.text) = rounds[r].revised_response)

PairNext ==
    \/ Next
    \/ PStart
    \/ SGenerating
    \/ SGenerated([ok |-> TRUE, text |-> initial_response])
    \/ SRoundStart
    \/ SNextPrinciple
    \/ \E outcome \in CritiqueOutcomes :
          /\ SameEvaluation(s_round_num + 1, Len(s_eval_log) + 1, outcome)
          /\ SEvalReturn(outcome)
    \/ SCritiqued
    \/ SAfterCritiqued
    \/ \E outcome \in GenerationOutcomes :
          /\ SameRevision(s_round_num + 1, outcome)
          /\ SRevised(outcome)
    \/ SRecordRound
    \/ SLoopEnd
    \/ SComplete

PairSpec == PairInit /\ [][PairNext]_<<vars, svars>>


\* ----------------------------------------------- symmetry of the ratio
MaxSimLen == 4

SimTexts == UNION {[1..n -> Chars] : n \in 0..MaxSimLen}

t_others == <<vars, svars, mvars, fvars, cvars, jvars, kvars>>

SimInit ==
    /\ LoopsIdle
    /\ MutFresh
    /\ ConfFresh
    /\ CompareFresh
    /\ ParseFresh
    /\ LoopsFresh
    /\ t_pc = "start"
    /\ t_a \in SimTexts
    /\ t_b \in SimTexts
    /\ t_forward = NoRatio
    /\ t_backward = NoRatio

\* calculate_text_similarity(a, b)
SimForward ==
    /\ t_pc = "start"
    /\ t_forward' = calculate_text_similarity(t_a, t_b)
    /\ t_pc' = "forward"
    /\ UNCHANGED <<t_a, t_b, t_backward>>
    /\ UNCHANGED t_others

\* calculate_text_similarity(b, a)
SimBackward ==
    /\ t_pc = "forward"
    /\ t_backward' = calculate_text_similarity(t_b, t_a)
    /\ t_pc' = "done"
    /\ UNCHANGED <<t_a, t_b, t_forward>>
    /\ UNCHANGED t_others

SimNext ==
    \/ SimForward
    \/ SimBackward

SimSpec == SimInit /\ [][SimNext]_tvars

\* ------------------------------------ generate_critique, the parsing
\* The model output as a sequence of tokens: "x" is prose without braces,
\* "{" and "}" are braces, "T" stands for the members of a payload with
\* "triggered": true and "F" for those of one with "triggered": false.
\* "{", "T", "}" is then the text of a well-formed payload.
MaxOutputLen == 6

Tokens == {"x", "{", "}", "T", "F"}

Members == {"T", "F"}

ModelOutputs == UNION {[1..n -> Tokens] : n \in 0..MaxOutputLen}

\* the principle under evaluation
ParsePrinciple == Principle("p1", TRUE)

\* re.search(r'\{[\s\S]*\}', response_text).group(): from the first "{" to
\* the last "}" of the text; <<>> for no match
re_search_braces(response_text) ==
    LET opens == {i \in 1..Len(response_text) : response_text[i] = "{"}
        closes == {i \in 1..Len(response_text) : response_text[i] = "}"}
    IN  IF opens = {} \/ closes = {} THEN <<>>
        ELSE LET first == CHOOSE i \in opens : \A o \in opens : i <= o
                 last == CHOOSE i \in closes : \A o \in closes : i >= o
             IN  IF first < last THEN SubSeq(response_text, first, last) ELSE <<>>

\* json.loads of the matched text, read with the defaults of result.get:
\* an object of the members, the empty object, or a JSONDecodeError
json_loads(text) ==
    IF text = <<"{", "}">>
        THEN Returned([triggered |-> FALSE, severity |-> <<0, 1>>, critique |-> <<>>,
                       suggestions |-> <<>>])
    ELSE IF Len(text) = 3 /\ text[1] = "{" /\ text[2] \in Members /\ text[3] = "}"
        THEN Returned(Payload(IF text[2] = "T" THEN "triggered" ELSE "not_triggered"))
    ELSE Raised("invalid JSON")

\* the try block of generate_critique after the call returned response_text
ParseTry(principle, response_text) ==
    LET json_match == re_search_braces(response_text)
        loaded == IF json_match # <<>> THEN json_loads(json_match)
                  ELSE Returned([triggered |-> FALSE, severity |-> <<0, 1>>,
                                 critique |-> response_text, suggestions |-> <<>>])
    IN  IF loaded.raised THEN loaded
        ELSE Returned([principle_id |-> principle.id,
                       principle_name |-> principle.name,
                       triggered |-> loaded.value.triggered,
                       critique_text |-> loaded.value.critique,
                       severity |-> loaded.value.severity,
                       suggestions |-> loaded.value.suggestions])

\* generate_critique on a given model output
parse_critique(principle, response_text) ==
    LET body == ParseTry(principle, response_text)
    IN  IF body.raised THEN CritiqueOnError(principle, body.value).value ELSE body.value

j_others == <<vars, svars, mvars, fvars, cvars, tvars, kvars>>

ParseInit ==
    /\ LoopsIdle
    /\ MutFresh
    /\ ConfFresh
    /\ CompareFresh
    /\ SimFresh
    /\ LoopsFresh
    /\ j_pc = "call"
    /\ j_text \in ModelOutputs
    /\ j_result = NoParse

\* client.messages.create returns and response_text is read
JReceive ==
    /\ j_pc = "call"
    /\ j_pc' = "parse"
    /\ UNCHANGED <<j_text, j_result>>
    /\ UNCHANGED j_others

\* client.messages.create raises
JRaise ==
    /\ j_pc = "call"
    /\ j_result' = CritiqueOnError(ParsePrinciple, "generation failed").value
    /\ j_pc' = "failed"
    /\ UNCHANGED j_text
    /\ UNCHANGED j_others

\* the output is parsed and the PrincipleCritique returned
JParse ==
    /\ j_pc = "parse"
    /\ j_result' = parse_critique(ParsePrinciple, j_text)
    /\ j_pc' = "done"
    /\ UNCHANGED j_text
    /\ UNCHANGED j_others

ParseNext ==
    \/ JReceive
    \/ JRaise
    \/ JParse

ParseSpec == ParseInit /\ [][ParseNext]_jvars

\* ------------------------------------- compare_constitutions, the loops
\* The constitutional_critique coroutines gathered by compare_constitutions,
\* each followed from one suspension point (a generation call) to the next.
MaxLoops == 2

Loops == 1..MaxLoops

\* the principles of the constitution at position i
LoopPrincipleLists(i) ==
    LET a == PrincipleIdPool[2 * i - 1]
        b == PrincipleIdPool[2 * i]
    IN  {<<Principle(a, TRUE)>>,
         <<Principle(a, TRUE), Principle(b, TRUE)>>,
         <<Principle(a, FALSE), Principle(b, TRUE)>>,
         <<Principle(a, FALSE)>>}

LoopConstitutions ==
    {[i \in Loops |-> [id |-> ConstitutionIdPool[i],
                       name |-> <<"constitution", ConstitutionIdPool[i]>>,
                       principles |-> ps[i]]] :
        ps \in {f \in [Loops -> UNION {LoopPrincipleLists(i) : i \in Loops}] :
                    \A i \in Loops : f[i] \in LoopPrincipleLists(i)}}

LoopEvalOutcomes == {"triggered", "not_triggered", "api_error"}

LoopRevisionOutcomes ==
    {[ok |-> FALSE, text |-> <<>>],
     [ok |-> TRUE, text |-> <<"a">>],
     [ok |-> TRUE, text |-> <<"a", "a">>]}

NoRevisionOutcome == [ok |-> FALSE, text |-> <<"none">>]

k_enabled(i) == get_enabled_principles(k_constitutions[i])

\* a mutant of append_round: one rounds list shared by all the loops
append_round_shared(rs, i, round) == [j \in DOMAIN rs |-> Append(rs[j], round)]

\* rounds.append(CritiqueRound(...)) on the rounds list of the loop's frame
append_round(rs, i, round) == [rs EXCEPT ![i] = Append(rs[i], round)]

\* CritiqueRound(...) of one round
loop_round(n, current, cs, revision) ==
    LET tr == triggered_critiques(cs)
    IN  [round_number |-> n,
         input_response |-> current,
         critiques |-> cs,
         revised_response |-> revision.text,
         principles_triggered |-> [x \in 1..Len(tr) |-> tr[x].principle_name],
         confidence |-> revision.confidence,
         diff_summary |-> generate_diff_summary(current, revision.text)]

\* CritiqueResult(...) returned by the loop of constitution i
k_loop_result(i, current, rs, all) ==
    LET initial_similarity == calculate_text_similarity(k_initial, current)
    IN  [original |-> k_initial,
         final |-> current,
         prompt |-> "prompt",
         rounds |-> rs,
         total_rounds |-> Len(rs),
         constitution_id |-> k_constitutions[i].id,
         constitution_name |-> k_constitutions[i].name,
         converged |-> converged_flag(Len(rs), k_max_rounds, "none"),
         total_principles_triggered |-> all,
         improvement_score |->
             <<initial_similarity[2] - initial_similarity[1], initial_similarity[2]>>]

k_others == <<vars, svars, mvars, fvars, cvars, tvars, jvars>>

\* compare_constitutions has its initial response and has created the loops
LoopsInit ==
    /\ LoopsIdle
    /\ MutFresh
    /\ ConfFresh
    /\ CompareFresh
    /\ SimFresh
    /\ ParseFresh
    /\ k_constitutions \in LoopConstitutions
    /\ k_max_rounds \in 0..MaxRoundsBound
    /\ k_initial = <<"a">>
    /\ k_pc = [i \in Loops |-> "loop"]
    /\ k_round_num = [i \in Loops |-> 0]
    /\ k_current = [i \in Loops |-> k_initial]
    /\ k_rounds = [i \in Loops |-> <<>>]
    /\ k_triggered = [i \in Loops |-> {}]
    /\ k_tasks = [i \in Loops |-> <<>>]
    /\ k_task_result = [i \in Loops |-> <<>>]
    /\ k_critiques = [i \in Loops |-> <<>>]
    /\ k_log = [i \in Loops |-> <<>>]
    /\ k_results = [i \in Loops |-> NoResult]

\* loop i enters a round and suspends in gather, its evaluation calls issued
KRoundStart(i) ==
    /\ k_pc[i] = "loop"
    /\ range_has_next(k_round_num[i], k_max_rounds)
    /\ k_pc' = [k_pc EXCEPT ![i] = "gather"]
    /\ k_tasks' = [k_tasks EXCEPT ![i] = [j \in 1..Len(k_enabled(i)) |-> "inflight"]]
    /\ k_task_result' = [k_task_result EXCEPT
                            ![i] = [j \in 1..Len(k_enabled(i)) |-> NoCritique]]
    /\ k_log' = [k_log EXCEPT ![i] =
                    Append(@, [evals |-> [j \in 1..Len(k_enabled(i)) |-> "pending"],
                               called |-> FALSE,
                               rev |-> NoRevisionOutcome])]
    /\ UNCHANGED <<k_constitutions, k_max_rounds, k_initial, k_round_num, k_current,
                   k_rounds, k_triggered, k_critiques, k_results>>
    /\ UNCHANGED k_others

\* an evaluation call of loop i ends and its generate_critique returns
KEvalReturn(i, j, outcome) ==
    /\ k_pc[i] = "gather"
    /\ j \in DOMAIN k_tasks[i]
    /\ k_tasks[i][j] = "inflight"
    /\ k_tasks' = [k_tasks EXCEPT ![i][j] = "done"]
    /\ k_task_result' = [k_task_result EXCEPT
                            ![i][j] = generate_critique(k_enabled(i)[j], outcome).value]
    /\ k_log' = [k_log EXCEPT ![i][Len(k_log[i])].evals[j] = outcome]
    /\ UNCHANGED <<k_constitutions, k_max_rounds, k_initial, k_pc, k_round_num,
                   k_current, k_rounds, k_triggered, k_critiques, k_results>>
    /\ UNCHANGED k_others

\* steps 3 to 5 of the loop body of loop i; after a break the loop returns
KFinishRound(i, revision, cs, all) ==
    LET current == k_current[i]
        similar == converges(calculate_text_similarity(current, revision.text),
                             DefaultThreshold)
    IN  /\ k_rounds' = append_round(k_rounds, i,
                                    loop_round(k_round_num[i], current, cs, revision))
        /\ k_current' = [k_current EXCEPT
                            ![i] = next_current(current, revision.text, similar)]
        /\ IF similar
              THEN /\ k_pc' = [k_pc EXCEPT ![i] = "done"]
                   /\ k_results' = [k_results EXCEPT
                                       ![i] = k_loop_result(i, current, k_rounds'[i], all)]
                   /\ UNCHANGED k_round_num
              ELSE /\ k_pc' = [k_pc EXCEPT ![i] = "loop"]
                   /\ k_round_num' = [k_round_num EXCEPT ![i] = @ + 1]
                   /\ UNCHANGED k_results

\* gather of loop i returns; generate_revision suspends in its generation
\* call, or returns at once when no critique triggered
KAfterGather(i) ==
    /\ k_pc[i] = "gather"
    /\ gather_done(k_tasks[i])
    /\ LET cs == gather(k_task_result[i], <<>>)
           tr == triggered_critiques(cs)
           all == update_triggered(k_triggered[i],
                                   [x \in 1..Len(tr) |-> tr[x].principle_name])
       IN  /\ k_triggered' = [k_triggered EXCEPT ![i] = all]
           /\ k_critiques' = [k_critiques EXCEPT ![i] = cs]
           /\ IF needs_generation(cs)
                 THEN /\ k_pc' = [k_pc EXCEPT ![i] = "revising"]
                      /\ UNCHANGED <<k_round_num, k_current, k_rounds, k_results>>
                 ELSE KFinishRound(i, revision_unchanged(k_current[i]).value, cs, all)
    /\ UNCHANGED <<k_constitutions, k_max_rounds, k_initial, k_tasks, k_task_result,
                   k_log>>
    /\ UNCHANGED k_others

\* the revision call of loop i ends
KRevReturn(i, outcome) ==
    /\ k_pc[i] = "revising"
    /\ k_log' = [k_log EXCEPT ![i][Len(k_log[i])].called = TRUE,
                              ![i][Len(k_log[i])].rev = outcome]
    /\ KFinishRound(i,
                    generate_revision_call(k_current[i], k_critiques[i], outcome).value,
                    k_critiques[i], k_triggered[i])
    /\ UNCHANGED <<k_constitutions, k_max_rounds, k_initial, k_triggered, k_tasks,
                   k_task_result, k_critiques>>
    /\ UNCHANGED k_others

\* range(max_rounds) of loop i is exhausted and the loop returns
KLoopEnd(i) ==
    /\ k_pc[i] = "loop"
    /\ ~range_has_next(k_round_num[i], k_max_rounds)
    /\ k_pc' = [k_pc EXCEPT ![i] = "done"]
    /\ k_results' = [k_results EXCEPT
                        ![i] = k_loop_result(i, k_current[i], k_rounds[i], k_triggered[i])]
    /\ UNCHANGED <<k_constitutions, k_max_rounds, k_initial, k_round_num, k_current,
                   k_rounds, k_triggered, k_tasks, k_task_result, k_critiques, k_log>>
    /\ UNCHANGED k_others

LoopsNext ==
    \/ \E i \in Loops : KRoundStart(i)
    \/ \E i \in Loops, j \in 1..MaxPrinciples, outcome \in LoopEvalOutcomes :
          KEvalReturn(i, j, outcome)
    \/ \E i \in Loops : KAfterGather(i)
    \/ \E i \in Loops, outcome \in LoopRevisionOutcomes : KRevReturn(i, outcome)
    \/ \E i \in Loops : KLoopEnd(i)

LoopsSpec == LoopsInit /\ [][LoopsNext]_kvars

\* ================================================================== claims
Done == pc = "done"

LastRound == rounds[Len(rounds)]

\* similarity(input_response, revised_response) >= convergence_threshold
RoundSimilar(r) ==
    RatGE(calculate_text_similarity(r.input_response, r.revised_response),
          convergence_threshold)

FailedEvaluation(k, i) == eval_log[k][i] \in CritiqueFailures

C2_ConvergedIffBreak ==
    Done => /\ result.converged <=> (loop_exit = "break")
            /\ (~result.converged) <=> (loop_exit = "exhausted")

\* C2 as amended: converged is true iff the loop stopped on the threshold in
\* a round before the last allowed one (index < max_rounds - 1); whenever the
\* range was exhausted it is false, and it is false as well when the break
\* came in the last allowed round.
C2_ConvergedIffEarlyBreak ==
    Done => /\ result.converged <=>
                (loop_exit = "break" /\ LastRound.round_number < max_rounds - 1)
            /\ (loop_exit = "exhausted") => ~result.converged
            /\ (loop_exit = "break" /\ LastRound.round_number = max_rounds - 1)
                  => ~result.converged

C2_Witness ==
    /\ Done
    /\ loop_exit = "break"
    /\ ~result.converged
    /\ RoundSimilar(LastRound)

\* the last allowed round is the first to reach the threshold
LastAllowedRoundConverges ==
    /\ max_rounds >= 1
    /\ Len(rounds) >= max_rounds
    /\ RoundSimilar(rounds[max_rounds])
    /\ \A k \in 1..(max_rounds - 1) : ~RoundSimilar(rounds[k])

\* C3: converged equals (total_rounds < max_rounds); when no round before
\* index max_rounds-1 reaches the threshold and the round with index
\* max_rounds-1 does, the result has exactly max_rounds rounds and
\* converged is false.
C3_ConvergedIsRoundCountProxy ==
    Done => /\ result.converged = (result.total_rounds < max_rounds)
            /\ LastAllowedRoundConverges =>
                  (result.total_rounds = max_rounds /\ ~result.converged)

C3_Witness ==
    /\ Done
    /\ max_rounds = 2
    /\ LastAllowedRoundConverges
    /\ rounds[1].principles_triggered # <<>>
    /\ rounds[2].revised_response = rounds[2].input_response
    /\ result.total_rounds = 2

\* C4: with at least one round, final is the last round's input_response
\* when that round reached the threshold (its revision is recorded but not
\* promoted) and the last round's revised_response otherwise.
C4_FinalText ==
    (Done /\ result.total_rounds >= 1) =>
        LET last == result.rounds[result.total_rounds]
        IN  IF RoundSimilar(last)
                THEN result.final = last.input_response
                ELSE result.final = last.revised_response

C4_Witness ==
    /\ Done
    /\ result.total_rounds >= 1
    /\ RoundSimilar(LastRound)
    /\ LastRound.revised_response # LastRound.input_response
    /\ result.final = LastRound.input_response

EntriesFor(cs, id) == {k \in 1..Len(cs) : cs[k].principle_id = id}

\* C5: every recorded round holds exactly one critique per enabled principle
\* of the constitution and none for a disabled one, triggered or not, failed
\* or not.
C5_OneCritiquePerEnabledPrinciple ==
    \A k \in 1..Len(rounds) :
        /\ \A n \in 1..Len(constitution.principles) :
              LET p == constitution.principles[n]
              IN  Cardinality(EntriesFor(rounds[k].critiques, p.id))
                    = (IF p.enabled THEN 1 ELSE 0)
        /\ \A c \in Range(rounds[k].critiques) :
              \E n \in 1..Len(constitution.principles) :
                  constitution.principles[n].id = c.principle_id

C5_Witness ==
    /\ Len(rounds) >= 1
    /\ \E n \in 1..Len(constitution.principles) : ~constitution.principles[n].enabled
    /\ \E i \in 1..Len(rounds[1].critiques) : FailedEvaluation(1, i)

\* the names of the principles, in declared order, whose critique in cs triggered
TriggeredInDeclaredOrder(cs) ==
    LET ps == SelectSeq(constitution.principles,
                        LAMBDA p : \E c \in Range(cs) : c.principle_id = p.id /\ c.triggered)
    IN  [n \in 1..Len(ps) |-> ps[n].name]

\* C6: whatever the order in which the evaluations of a round complete, the
\* round's critiques and its principles_triggered are in the constitution's
\* declared order.
C6_DeclaredOrder ==
    \A k \in 1..Len(rounds) :
        /\ [n \in 1..Len(rounds[k].critiques) |-> rounds[k].critiques[n].principle_id]
              = [n \in 1..Len(enabled_principles) |-> enabled_principles[n].id]
        /\ rounds[k].principles_triggered = TriggeredInDeclaredOrder(rounds[k].critiques)

\* the last principle answered first, and both critiques triggered
C6_Witness ==
    /\ pc \in {"loop", "return", "done"}
    /\ Len(rounds) >= 1
    /\ Len(enabled_principles) = 2
    /\ completion = <<2, 1>>
    /\ Len(LastRound.principles_triggered) = 2

RevisionInFlight == pc = "revising"

\* C7: the revision call of a round is not in flight while an evaluation of
\* that round is pending, and no evaluation of the next round is started
\* before the revision of the round has ended.
C7_Barrier ==
    /\ RevisionInFlight =>
          /\ \A i \in DOMAIN task_st : task_st[i] = "done"
          /\ Len(rev_log) = Len(eval_log)
    /\ (\E i \in DOMAIN task_st : task_st[i] = "inflight") =>
          /\ ~RevisionInFlight
          /\ \A k \in 1..Len(rev_log) : rev_log[k] # "inflight"
          /\ Len(rev_log) = Len(eval_log) - 1
          /\ Len(rounds) = Len(rev_log)

C7_Witness ==
    /\ RevisionInFlight
    /\ round_num = 1
    /\ completion = <<2, 1>>

\* C8: generate_critique never propagates an error: when the generation call
\* or the parsing of its output fails it returns a critique for the given
\* principle with triggered false, severity 0.0, no suggestions and the
\* error message in critique_text.
C8_CritiqueErrorContained ==
    /\ pc # "raised"
    /\ \A i \in DOMAIN task_st :
          (task_st[i] = "done" /\ FailedEvaluation(Len(eval_log), i)) =>
              /\ task_result[i].principle_id = enabled_principles[i].id
              /\ task_result[i].principle_name = enabled_principles[i].name
              /\ task_result[i].triggered = FALSE
              /\ RatEq(task_result[i].severity, <<0, 1>>)
              /\ task_result[i].suggestions = <<>>
              /\ task_result[i].critique_text
                    = <<"Error during critique: ", ErrorText(eval_log[Len(eval_log)][i])>>

C8_Witness ==
    /\ Len(enabled_principles) = 2
    /\ task_st = <<"done", "done">>
    /\ eval_log[Len(eval_log)] = <<"api_error", "bad_json">>

C10_NoTriggerNoCall ==
    \A k \in 1..Len(rounds) :
        (triggered_critiques(rounds[k].critiques) = <<>>) =>
            /\ rev_log[k] = "no_call"
            /\ rounds[k].revised_response = rounds[k].input_response
            /\ RatEq(rounds[k].confidence, <<1, 1>>)

C10_Witness ==
    /\ Len(rounds) >= 1
    /\ Len(LastRound.critiques) = 2
    /\ triggered_critiques(LastRound.critiques) = <<>>
    /\ rev_log[Len(rounds)] = "no_call"

\* C11: when the generation call made by generate_revision fails, the error
\* is not propagated: the Revision returned has the original response as its
\* text and confidence 0.0.
C11_RevisionFailureFallsBack ==
    /\ (pc = "raised") => (rev_log = <<>> \/ rev_log[Len(rev_log)] # "failed")
    /\ \A k \in 1..Len(rounds) :
          (rev_log[k] = "failed") =>
              /\ rounds[k].revised_response = rounds[k].input_response
              /\ RatEq(rounds[k].confidence, <<0, 1>>)

C11_Witness ==
    /\ Len(rounds) >= 1
    /\ rev_log[Len(rounds)] = "failed"
    /\ LastRound.input_response = <<"a">>
    /\ LastRound.revised_response = <<"a">>

ThresholdAtMostOne == RatGE(<<1, 1>>, convergence_threshold)

\* C12: with convergence_threshold <= 1.0, a revision call that fails in
\* round r leaves round r recorded with revised_response = input_response
\* and confidence 0.0, no round follows it, and the result's final is the
\* input_response of round r.
C12_FailedRevisionEndsLoop ==
    ThresholdAtMostOne =>
        \A k \in 1..Len(rev_log) :
            (rev_log[k] = "failed") =>
                /\ Len(rounds) = k
                /\ Len(eval_log) = k
                /\ rounds[k].revised_response = rounds[k].input_response
                /\ RatEq(rounds[k].confidence, <<0, 1>>)
                /\ pc \in {"return", "done"}
                /\ Done => /\ result.final = rounds[k].input_response
                           /\ result.total_rounds = k
                           /\ result.rounds = rounds

C12_Witness ==
    /\ Done
    /\ ThresholdAtMostOne
    /\ max_rounds = 2
    /\ rev_log = <<"failed">>
    /\ result.final = <<"a">>

\* C13: when the revision of the first round is similar to the initial
\* response (similarity >= convergence_threshold), exactly one round is
\* recorded, and with max_rounds >= 2 the result has converged = true.
C13_ImmediateConvergence ==
    (Len(rounds) >= 1 /\ RoundSimilar(rounds[1])) =>
        /\ rounds[1].input_response = initial_response
        /\ Len(rounds) = 1
        /\ Len(eval_log) = 1
        /\ pc \in {"return", "done"}
        /\ Done => /\ result.total_rounds = 1
                   /\ Len(result.rounds) = 1
                   /\ (max_rounds >= 2) => result.converged

C13_Witness ==
    /\ Done
    /\ max_rounds = 2
    /\ rev_log = <<"returned">>
    /\ RatEq(convergence_threshold, <<1, 1>>)
    /\ RoundSimilar(rounds[1])
    /\ result.converged

\* C14: when in every round the revision is not similar to the round's
\* input, exactly max_rounds rounds are recorded, converged is false and
\* final is the revised_response of the last round.
C14_NoConvergenceUsesBudget ==
    (Done /\ \A k \in 1..Len(rounds) : ~RoundSimilar(rounds[k])) =>
        /\ result.total_rounds = max_rounds
        /\ Len(result.rounds) = max_rounds
        /\ ~result.converged
        /\ (max_rounds >= 1) =>
              result.final = result.rounds[max_rounds].revised_response

C14_Witness ==
    /\ Done
    /\ max_rounds = 2
    /\ Len(rounds) = 2
    /\ \A k \in 1..2 : ~RoundSimilar(rounds[k])
    /\ rounds[1].revised_response # rounds[2].revised_response
    /\ ~result.converged

\* C15: in every result, total_principles_triggered is exactly the union of
\* the principles_triggered of the recorded rounds.
C15_TotalTriggeredIsUnion ==
    Done =>
        result.total_principles_triggered =
            UNION {Range(result.rounds[k].principles_triggered) :
                       k \in 1..Len(result.rounds)}

C15_Witness ==
    /\ Done
    /\ Len(result.rounds) = 2
    /\ Len(result.rounds[1].principles_triggered) = 1
    /\ Len(result.rounds[2].principles_triggered) = 1
    /\ Cardinality(result.total_principles_triggered) = 2

\* ------------------------------------------------ claims on the stream
EventTypes == [i \in 1..Len(events) |-> events[i].type]

LastEvent == events[Len(events)]

StreamClosed == s_pc = "closed"

\* no generation call of the stream has failed
NoCallFailed == s_failed = "none"

\* C16: in every result of the batch loop and in the result carried by the
\* complete event of the streaming loop, total_rounds is the number of
\* entries of rounds.
C16_TotalRoundsIsLength ==
    /\ Done => result.total_rounds = Len(result.rounds)
    /\ \A i \in 1..Len(events) :
          (events[i].type = "complete") =>
              /\ events[i].data.result.total_rounds = Len(events[i].data.result.rounds)
              /\ events[i].data.result.rounds = s_rounds

C16_Witness ==
    /\ StreamClosed
    /\ LastEvent.type = "complete"
    /\ LastEvent.data.result.total_rounds = 2
    /\ s_round_num = 1

\* what may directly follow an event in a stream in which no call fails
MayFollow(e, f) ==
    \/ e.type = "generating" /\ f.type = "generated"
    \/ e.type = "generated" /\ f.type = "critiquing" /\ f.round = 1
    \/ e.type = "critiquing" /\ f.type = "critiqued" /\ f.round = e.round
    \/ e.type = "critiqued" /\ f.type = "revising" /\ f.round = e.round
    \/ e.type = "critiqued" /\ f.type = "complete"
    \/ e.type = "revising" /\ f.type = "revised" /\ f.round = e.round
    \/ e.type = "revised" /\ f.type = "critiquing" /\ f.round = e.round + 1
    \/ e.type = "revised" /\ f.type = "complete"

\* C17: when no generation call fails the events are generating, generated,
\* then per round critiquing, critiqued and optionally revising, revised,
\* and one final complete; critiquing of round r+1 never precedes revised of
\* round r, revising never comes without critiqued of its round before it.
C17_EventOrder ==
    NoCallFailed =>
        /\ (events # <<>>) => events[1].type = "generating"
        /\ \A i \in 1..(Len(events) - 1) : MayFollow(events[i], events[i + 1])
        /\ \A i \in 1..Len(events) :
              /\ (events[i].type = "critiquing" /\ events[i].round > 1) =>
                    \E j \in 1..(i - 1) : /\ events[j].type = "revised"
                                          /\ events[j].round = events[i].round - 1
              /\ (events[i].type = "revising") =>
                    \E j \in 1..(i - 1) : /\ events[j].type = "critiqued"
                                          /\ events[j].round = events[i].round
        /\ StreamClosed => /\ LastEvent.type = "complete"
                           /\ Cardinality({i \in 1..Len(events) :
                                              events[i].type = "complete"}) = 1

C17_Witness ==
    /\ StreamClosed
    /\ NoCallFailed
    /\ EventTypes = <<"generating", "generated", "critiquing", "critiqued", "revising",
                      "revised", "critiquing", "critiqued", "revising", "revised",
                      "complete">>

\* the critiqued events of rounds in which no principle triggered
QuietRounds ==
    {i \in 1..Len(events) : /\ events[i].type = "critiqued"
                            /\ events[i].data.principles_triggered = <<>>}

\* C18: a round of the stream in which no principle triggers emits only
\* critiquing and critiqued, makes no revision call, records a round with
\* confidence 1.0 and revised_response = input_response, is the last round
\* and is followed directly by complete.
C18_QuietRoundEndsStream ==
    \A i \in QuietRounds :
        LET r == events[i].round
        IN  /\ {events[j].type : j \in {n \in 1..Len(events) : events[n].round = r}}
                  \subseteq {"critiquing", "critiqued"}
            /\ events[i - 1].type = "critiquing" /\ events[i - 1].round = r
            /\ s_pc \in {"critiqued", "complete", "closed"}
            /\ (i < Len(events)) => (i + 1 = Len(events) /\ LastEvent.type = "complete")
            /\ StreamClosed => i < Len(events)
            /\ (s_pc # "critiqued") =>
                  /\ Len(s_rounds) = r
                  /\ s_rounds[r].round_number = r - 1
                  /\ s_rounds[r].critiques = <<>>
                  /\ s_rounds[r].revised_response = s_rounds[r].input_response
                  /\ RatEq(s_rounds[r].confidence, <<1, 1>>)
                  /\ s_rev_log[r] = "no_call"

C18_Witness ==
    /\ StreamClosed
    /\ max_rounds = 2
    /\ EventTypes = <<"generating", "generated", "critiquing", "critiqued", "complete">>
    /\ Len(s_eval_log) = 2
    /\ Len(s_rounds) = 1

TerminalEvents == {i \in 1..Len(events) : events[i].type \in TerminalTypes}

\* C19: a stream that runs to its end holds exactly one terminal event,
\* complete or error, and it is the last event; a failure of the initial
\* generation is delivered as an error event.
C19_OneTerminalEventLast ==
    /\ \A i \in TerminalEvents : i = Len(events) /\ StreamClosed
    /\ StreamClosed => TerminalEvents = {Len(events)} /\ Len(events) >= 1
    /\ (s_failed = "initial") =>
          /\ StreamClosed
          /\ EventTypes = <<"generating", "error">>

C19_Witness ==
    /\ StreamClosed
    /\ s_failed = "initial"
    /\ LastEvent.type = "error"

\* C20: in the stream a failed evaluation call or revision call is
\* contained as in the batch loop: it never ends the stream with an error
\* event, the evaluation counts as not triggered (the revision keeps the
\* unrevised text) and the stream reaches complete.
C20_StreamContainsFailures ==
    /\ s_failed \notin {"evaluation", "revision"}
    /\ \A i \in 1..Len(events) : (events[i].type = "error") => s_failed = "initial"
    /\ (StreamClosed /\ s_failed # "initial") => LastEvent.type = "complete"

\* the run that contradicts C20: the first evaluation call of the first
\* round fails and the stream ends with an error event
C20_Witness ==
    /\ StreamClosed
    /\ s_failed = "evaluation"
    /\ s_eval_log = <<"api_error">>
    /\ EventTypes = <<"generating", "generated", "critiquing", "error">>

\* ------------------------------------ claims on the Constitution object
IdsPresent(ps) == {ps[k].id : k \in 1..Len(ps)}

\* C26: reorder_principles(ids) sets the list to the principles whose id
\* occurs in ids, in the order of ids; ids that are absent are skipped,
\* principles not named are dropped ([a,b,c] with [c,x,a] becomes [c,a]).
C26_ReorderFollowsIds ==
    [][LET ids == m_last'.ids
       IN ReorderPrinciples(ids) =>
              /\ Ids(m_principles') =
                    SelectSeq(ids, LAMBDA id : id \in IdsPresent(m_principles))
              /\ \A k \in 1..Len(m_principles') :
                    \E n \in 1..Len(m_principles) : m_principles'[k] = m_principles[n]
              /\ (Ids(m_principles) = <<"p1", "p2", "p3">> /\ ids = <<"p3", "p4", "p1">>)
                    => Ids(m_principles') = <<"p3", "p1">>]_mvars

C26_Witness ==
    /\ m_last.op = "reorder"
    /\ m_last.ids = <<"p3", "p4", "p1">>
    /\ Ids(m_principles) = <<"p3", "p1">>
    /\ m_updated_at = 1

\* C27: after every sequence of add_principle, remove_principle and
\* reorder_principles calls on a constitution with pairwise distinct
\* principle ids, the principle ids are pairwise distinct.
C27_IdsStayDistinct == Distinct(Ids(m_principles))

\* the state that contradicts C27: a reorder with a repeated id has put the
\* same principle into the list twice
C27_Witness ==
    /\ m_last.op = "reorder"
    /\ m_last.ids = <<"p1", "p1">>
    /\ Ids(m_principles) = <<"p1", "p1">>

\* C28: add_principle with an id already in the constitution raises and
\* leaves the list and updated_at as they were; with a new id it appends the
\* principle at the end and sets updated_at to the current time.
C28_AddChecksId ==
    [][LET id == m_last'.ids[1]
       IN (m_last'.op = "add" /\ AddPrinciple(Principle(id, TRUE))) =>
              IF id \in IdsPresent(m_principles)
                  THEN /\ m_last'.raised
                       /\ m_principles' = m_principles
                       /\ m_updated_at' = m_updated_at
              ELSE /\ ~m_last'.raised
                   /\ m_principles' = Append(m_principles, Principle(id, TRUE))
                   /\ m_updated_at' = m_now]_mvars

C28_Witness ==
    /\ m_last.op = "add"
    /\ m_last.ids = <<"p2">>
    /\ m_last.raised
    /\ m_now = 1
    /\ m_updated_at = 0
    /\ Len(m_principles) = 2

\* C29: remove_principle with an absent id returns false and leaves the list
\* and updated_at as they were; with a present id it returns true, removes
\* the first principle of that id and nothing else, and keeps the order of
\* the others.
C29_RemoveFirstOnly ==
    [][LET id == m_last'.ids[1]
       IN (m_last'.op = "remove" /\ RemovePrinciple(id)) =>
              IF id \notin IdsPresent(m_principles)
                  THEN /\ ~m_last'.returned
                       /\ m_principles' = m_principles
                       /\ m_updated_at' = m_updated_at
              ELSE /\ m_last'.returned
                   /\ m_updated_at' = m_now
                   /\ Len(m_principles') = Len(m_principles) - 1
                   /\ \E i \in 1..Len(m_principles) :
                         /\ m_principles[i].id = id
                         /\ \A n \in 1..(i - 1) : m_principles[n].id # id
                         /\ \A n \in 1..(i - 1) : m_principles'[n] = m_principles[n]
                         /\ \A n \in (i + 1)..Len(m_principles) :
                               m_principles'[n - 1] = m_principles[n]]_mvars

C29_Witness ==
    /\ m_last.op = "remove"
    /\ m_last.ids = <<"p2">>
    /\ m_last.returned
    /\ Ids(m_principles) = <<"p2", "p2">>
    /\ m_updated_at = 2

\* -------------------------------------------- claims on the confidence
InUnitInterval(c) == RatGE(c, <<0, 1>>) /\ RatGE(<<1, 1>>, c)

\* C30: the confidence of every recorded round lies in [0,1], in the batch
\* loop and in the streaming loop, whatever the number of principles that
\* triggered in the round.
C30_ConfidenceInUnitInterval ==
    /\ \A k \in 1..Len(rounds) : InUnitInterval(rounds[k].confidence)
    /\ \A k \in 1..Len(s_rounds) : InUnitInterval(s_rounds[k].confidence)
    /\ (f_pc \in {"batch", "stream"}) => InUnitInterval(f_confidence)

\* the round that contradicts C30: eleven critiques triggered in a round of
\* the streaming loop
C30_Witness ==
    /\ f_pc = "stream"
    /\ f_triggered = 11
    /\ ~RatGE(f_confidence, <<0, 1>>)

\* ------------------- claims on full_cai_pipeline and compare_constitutions
CompareDone == c_pc = "done"

\* C23: compare_constitutions returns one CritiqueResult per constitution
\* given, the i-th bearing the constitution_id of the i-th constitution, in
\* whatever order the concurrent loops finish.
C23_ResultsInInputOrder ==
    CompareDone =>
        /\ Len(c_results) = Len(c_constitutions)
        /\ \A i \in 1..Len(c_constitutions) :
              c_results[i].constitution_id = c_constitutions[i].id

C23_Witness ==
    /\ CompareDone
    /\ c_mode = "compare"
    /\ Ids(c_constitutions) = <<"c1", "c2", "c3">>
    /\ c_completion = <<3, 1, 2>>
    /\ c_results[3].constitution_id = "c3"

\* C24: compare_constitutions makes exactly one initial-response generation
\* call, however many constitutions it is given, and every result returned
\* has that response as its original.
C24_OneSharedInitialResponse ==
    /\ c_initial_calls <= 1
    /\ (c_pc \in {"initial_call", "loops", "done", "raised"}) => c_initial_calls = 1
    /\ \A i \in 1..Len(c_task_st) :
          (c_task_st[i] = "done") => c_task_result[i].original = c_initial
    /\ CompareDone => \A i \in 1..Len(c_results) : c_results[i].original = c_initial

C24_Witness ==
    /\ CompareDone
    /\ c_mode = "compare"
    /\ Len(c_constitutions) = 3
    /\ c_initial_calls = 1
    /\ c_initial = <<"a">>
    /\ \A i \in 1..3 : c_results[i].original = <<"a">>
    /\ c_results[2].final # <<"a">>

\* C25: when the initial response generation fails, full_cai_pipeline and
\* compare_constitutions raise to the caller, return no CritiqueResult and
\* issue no evaluation or revision call.
C25_InitialFailureIsFatal ==
    /\ (c_initial_outcome = "failed") =>
          /\ c_pc = "raised"
          /\ c_results = <<>>
          /\ c_task_st = <<>>
          /\ c_loop_calls = 0
    /\ (c_pc = "raised") => c_initial_outcome = "failed"
    /\ (c_initial_outcome = "none") => c_loop_calls = 0

C25_Witness ==
    /\ c_pc = "raised"
    /\ c_mode = "compare"
    /\ Len(c_constitutions) = 2
    /\ c_initial_outcome = "failed"

\* ------------------------------------- claims on the stream's consumer
\* C22: in the streaming loop at most one generation call is in flight at
\* any time, and once the consumer has stopped reading no generation call is
\* issued beyond the one that was executing when it stopped.
C22_NoCallAfterConsumerStops ==
    [][/\ s_inflight <= 1
       /\ s_inflight' <= 1
       /\ (s_reader = "stopped") => (s_calls' = s_calls /\ s_inflight' <= s_inflight)]_svars

C22_Witness ==
    /\ s_reader = "stopped"
    /\ s_pc = "evaluation_call"
    /\ s_inflight = 1
    /\ s_calls = 3
    /\ s_round_num = 0

\* -------------------------------------- claims on the two loops together
BothReturned == Done /\ StreamClosed /\ LastEvent.type = "complete"

StreamResult == LastEvent.data.result

\* C21: for the same constitution, initial response, max_rounds and
\* generation outputs, the result in the stream's complete event agrees with
\* the result of constitutional_critique on the number of rounds, the final
\* text and the converged flag.
C21_StreamAgreesWithBatch ==
    BothReturned =>
        /\ StreamResult.total_rounds = result.total_rounds
        /\ StreamResult.final = result.final
        /\ StreamResult.converged = result.converged

\* the run that contradicts C21: a principle triggers and the revision
\* returns its input unchanged, in every round; the batch loop stops after
\* one round and reports converged, the stream uses up its budget
C21_Witness ==
    /\ BothReturned
    /\ max_rounds = 2
    /\ result.total_rounds = 1
    /\ result.converged
    /\ rounds[1].revised_response = rounds[1].input_response
    /\ StreamResult.total_rounds = 2
    /\ ~StreamResult.converged
    /\ \A k \in 1..2 : /\ s_rounds[k].revised_response = s_rounds[k].input_response
                       /\ s_rounds[k].principles_triggered = <<"p1">>
    /\ StreamResult.final = result.final

\* the generation calls issued so far: evaluation calls that returned or are
\* in flight, and revision calls
EvaluationCalls ==
    Cardinality({ki \in (1..Len(eval_log)) \X (1..Len(enabled_principles)) :
                    \/ eval_log[ki[1]][ki[2]] # "pending"
                    \/ ki[1] = Len(eval_log) /\ task_st[ki[2]] = "inflight"})

RevisionCalls == Cardinality({k \in 1..Len(rev_log) : rev_log[k] # "no_call"})

\* C32: in each round the generation capability is called exactly once per
\* enabled principle for evaluation and at most once for revision (once when
\* a critique triggered, never otherwise), so a run issues at most
\* max_rounds * (number of enabled principles + 1) generation calls.
C32_CallsPerRound ==
    /\ Len(eval_log) <= max_rounds
    /\ Len(rev_log) <= Len(eval_log)
    /\ \A k \in 1..Len(rounds) :
          /\ DOMAIN eval_log[k] = 1..Len(enabled_principles)
          /\ \A i \in DOMAIN eval_log[k] : eval_log[k][i] \in CritiqueOutcomes
          /\ Len(rounds[k].critiques) = Len(enabled_principles)
          /\ rev_log[k] \in {"returned", "failed", "no_call"}
          /\ (rev_log[k] # "no_call") <=> (triggered_critiques(rounds[k].critiques) # <<>>)
    /\ EvaluationCalls + RevisionCalls <= max_rounds * (Len(enabled_principles) + 1)

C32_Witness ==
    /\ Done
    /\ max_rounds = 2
    /\ Len(enabled_principles) = 2
    /\ rev_log = <<"returned", "no_call">>
    /\ EvaluationCalls + RevisionCalls = 5
    /\ eval_log[2][1] = "not_triggered"
    /\ eval_log[2][2] = "api_error"

\* C35: in every result the rounds form a chain: round k has round_number k
\* (0-based), the first round's input_response is original, and each later
\* round's input_response is the revised_response of the round before it.
C35_RoundsChain ==
    Done =>
        /\ \A k \in 1..Len(result.rounds) : result.rounds[k].round_number = k - 1
        /\ (result.rounds # <<>>) => result.rounds[1].input_response = result.original
        /\ \A k \in 1..(Len(result.rounds) - 1) :
              result.rounds[k + 1].input_response = result.rounds[k].revised_response

C35_Witness ==
    /\ Done
    /\ Len(result.rounds) = 2
    /\ result.rounds[1].revised_response # result.rounds[1].input_response
    /\ result.rounds[2].input_response = result.rounds[1].revised_response
    /\ result.rounds[2].round_number = 1

\* C36: with convergence_threshold <= 1.0, every recorded round but the last
\* has a non-empty principles_triggered: a round in which no principle
\* triggers (every evaluation failing included) leaves the text unchanged
\* and ends the loop.
C36_QuietRoundIsLast ==
    ThresholdAtMostOne =>
        \A k \in 1..Len(rounds) :
            (rounds[k].principles_triggered = <<>>) =>
                /\ k = Len(rounds)
                /\ Len(eval_log) = k
                /\ rounds[k].revised_response = rounds[k].input_response
                /\ current_response = rounds[k].input_response
                /\ pc \in {"return", "done"}
                /\ loop_exit = "break"

C36_Witness ==
    /\ Done
    /\ max_rounds = 2
    /\ Len(enabled_principles) = 2
    /\ Len(rounds) = 1
    /\ rounds[1].principles_triggered = <<>>
    /\ \A i \in 1..2 : eval_log[1][i] \in CritiqueFailures
    /\ rounds[1].input_response # <<>>
    /\ result.final = rounds[1].input_response

NoEnabledPrinciple ==
    \A k \in 1..Len(constitution.principles) : ~constitution.principles[k].enabled

\* what the loop does for a constitution with no enabled principle when it
\* stops after its first round
OneEmptyRound ==
    /\ EvaluationCalls + RevisionCalls = 0
    /\ Done =>
          /\ rev_log = <<"no_call">>
          /\ result.total_rounds = 1
          /\ Len(result.rounds) = 1
          /\ result.rounds[1].critiques = <<>>
          /\ result.final = result.original
          /\ result.converged = (1 < max_rounds)

\* C37 as stated: for a constitution with no enabled principle and any
\* max_rounds >= 1, no generation call is issued, exactly one round with an
\* empty critiques list is recorded, final equals original and converged is
\* (1 < max_rounds).
C37_NoEnabledPrinciple ==
    (NoEnabledPrinciple /\ max_rounds >= 1) => OneEmptyRound

\* C37, amended: the same for convergence_threshold <= 1.0; above 1.0 the
\* unchanged text never reaches the threshold and max_rounds empty rounds
\* are recorded.
C37_NoEnabledPrincipleThresholdAtMostOne ==
    (NoEnabledPrinciple /\ max_rounds >= 1 /\ ThresholdAtMostOne) => OneEmptyRound

C37_Witness ==
    /\ Done
    /\ NoEnabledPrinciple
    /\ Len(constitution.principles) = 2
    /\ max_rounds = 2
    /\ RatEq(convergence_threshold, <<1, 1>>)
    /\ initial_response # <<>>
    /\ result.converged
    /\ Len(result.rounds) = 1

StreamCompleted == StreamClosed /\ LastEvent.type = "complete"

\* C38: in the result of every complete event of the streaming loop
\* (max_rounds >= 1), converged is true if and only if the last recorded
\* round has no triggered critique; a run whose every round had triggered
\* critiques reports converged = false with exactly max_rounds rounds.
C38_StreamConvergedIffQuietLastRound ==
    (StreamCompleted /\ max_rounds >= 1) =>
        LET r == StreamResult
        IN  /\ r.rounds # <<>>
            /\ r.converged <=> (r.rounds[Len(r.rounds)].critiques = <<>>)
            /\ (\A k \in 1..Len(r.rounds) : r.rounds[k].critiques # <<>>) =>
                  (~r.converged /\ Len(r.rounds) = max_rounds)

C38_Witness ==
    /\ StreamCompleted
    /\ max_rounds = 2
    /\ Len(StreamResult.rounds) = 2
    /\ StreamResult.rounds[1].critiques # <<>>
    /\ StreamResult.rounds[2].critiques = <<>>
    /\ StreamResult.converged

\* a second case of C38: every round, the last allowed one included, had
\* triggered critiques
C38_WitnessExhausted ==
    /\ StreamCompleted
    /\ max_rounds = 2
    /\ Len(StreamResult.rounds) = 2
    /\ \A k \in 1..2 : StreamResult.rounds[k].critiques # <<>>
    /\ ~StreamResult.converged

\* C39: in the result of every complete event of the streaming loop, final
\* is the revised_response of the last recorded round: every revision is
\* promoted to the current text, and a round with no triggered critique
\* records its unchanged input as revised_response.
C39_StreamFinalIsLastRevision ==
    /\ StreamCompleted =>
          LET r == StreamResult
          IN  /\ r.rounds # <<>>
              /\ r.final = r.rounds[Len(r.rounds)].revised_response
    /\ \A k \in 1..Len(s_rounds) :
          /\ (s_rounds[k].critiques = <<>>) =>
                s_rounds[k].revised_response = s_rounds[k].input_response
          /\ (k < Len(s_rounds)) =>
                s_rounds[k + 1].input_response = s_rounds[k].revised_response

C39_Witness ==
    /\ StreamCompleted
    /\ Len(StreamResult.rounds) = 2
    /\ StreamResult.rounds[1].revised_response # StreamResult.rounds[1].input_response
    /\ StreamResult.rounds[2].revised_response # StreamResult.rounds[2].input_response
    /\ StreamResult.final = StreamResult.rounds[2].revised_response
    /\ StreamResult.final # StreamResult.original

\* C31: calculate_text_similarity is symmetric: for all strings a and b,
\* calculate_text_similarity(a, b) equals calculate_text_similarity(b, a).
C31_SimilaritySymmetric ==
    (t_pc = "done") => RatEq(t_forward, t_backward)

\* "aa a" against " aaa": 0.75 one way, 0.5 the other
C31_Witness ==
    /\ t_pc = "done"
    /\ t_a = <<"a", "a", " ", "a">>
    /\ t_b = <<" ", "a", "a", "a">>
    /\ t_forward = <<6, 8>>
    /\ t_backward = <<4, 8>>

\* the places of the well-formed payloads in a model output
PayloadStarts(text) ==
    {i \in 1..(Len(text) - 2) :
        text[i] = "{" /\ text[i + 1] \in Members /\ text[i + 2] = "}"}

\* the fields of the first well-formed payload of a model output
FirstPayload(text) ==
    LET first == CHOOSE i \in PayloadStarts(text) : \A o \in PayloadStarts(text) : i <= o
    IN  Payload(IF text[first + 1] = "T" THEN "triggered" ELSE "not_triggered")

WholeOutputFallback ==
    /\ ~j_result.triggered
    /\ j_result.severity = <<0, 1>>
    /\ j_result.critique_text = j_text

\* C33: whenever the model output contains a well-formed payload anywhere
\* in it (surrounded by prose with braces, or followed by a second payload),
\* the returned critique carries the triggered, severity, critique and
\* suggestions of the first such payload; only when no payload is present
\* does it fall back to triggered = false, severity 0.0 and the whole output
\* as critique text.
C33_FirstPayloadAccepted ==
    (j_pc = "done") =>
        /\ (PayloadStarts(j_text) # {}) =>
              LET first == FirstPayload(j_text)
              IN  /\ j_result.triggered = first.triggered
                  /\ j_result.severity = first.severity
                  /\ j_result.critique_text = first.critique
                  /\ j_result.suggestions = first.suggestions
        /\ WholeOutputFallback => PayloadStarts(j_text) = {}

\* a triggered payload followed by a second payload is answered by a
\* non-triggered error critique
C33_Witness ==
    /\ j_pc = "done"
    /\ j_text = <<"{", "T", "}", "{", "F", "}">>
    /\ ~j_result.triggered
    /\ j_result.severity = <<0, 1>>
    /\ j_result.critique_text = <<"Error during critique: ", "invalid JSON">>

\* constitutional_critique run alone on constitution i and replayed on the
\* generation outputs of log: the CritiqueResult it returns
RECURSIVE SoloRun(_, _, _, _, _, _)
SoloRun(i, log, n, current, rs, all) ==
    IF ~(n < k_max_rounds) \/ n + 1 > Len(log) THEN k_loop_result(i, current, rs, all)
    ELSE LET ps == k_enabled(i)
             cs == [j \in 1..Len(ps) |-> generate_critique(ps[j], log[n + 1].evals[j]).value]
             tr == triggered_critiques(cs)
             all2 == all \cup {tr[x].principle_name : x \in 1..Len(tr)}
             revision == IF tr # <<>>
                            THEN generate_revision_call(current, cs, log[n + 1].rev).value
                            ELSE revision_unchanged(current).value
             rs2 == Append(rs, loop_round(n, current, cs, revision))
         IN  IF RatGE(calculate_text_similarity(current, revision.text), DefaultThreshold)
                THEN k_loop_result(i, current, rs2, all2)
                ELSE SoloRun(i, log, n + 1, revision.text, rs2, all2)

\* the generation outputs a finished loop consumed are those its rounds
\* asked for: every evaluation of every round, a revision where a critique
\* triggered
LogConsumed(i) ==
    /\ Len(k_log[i]) = Len(k_results[i].rounds)
    /\ \A n \in 1..Len(k_log[i]) :
          /\ \A j \in DOMAIN k_log[i][n].evals : k_log[i][n].evals[j] \in LoopEvalOutcomes
          /\ k_log[i][n].called <=> (k_results[i].rounds[n].principles_triggered # <<>>)

\* C34: the loops run at once by compare_constitutions do not interfere: for
\* every interleaving of their generation calls, the result for
\* constitution i (rounds, final, converged, triggered set) is the result of
\* constitutional_critique run alone on constitution i with the same initial
\* response and the same generation outputs, and no round of one loop
\* appears in the rounds of another.
C34_LoopsDoNotInterfere ==
    /\ \A i \in Loops :
          (k_pc[i] = "done") =>
              /\ LogConsumed(i)
              /\ k_results[i] = SoloRun(i, k_log[i], 0, k_initial, <<>>, {})
    /\ \A i, j \in Loops :
          (i # j) =>
              \A n \in 1..Len(k_rounds[i]) :
                  /\ [x \in 1..Len(k_rounds[i][n].critiques) |->
                        k_rounds[i][n].critiques[x].principle_id] = Ids(k_enabled(i))
                  /\ (k_rounds[i][n].critiques # <<>>) =>
                        k_rounds[i][n] \notin Range(k_rounds[j])

\* the first loop has run its two rounds and returned while the second was
\* suspended in its first round, which then ran on to a different result
C34_Witness ==
    /\ k_pc[1] = "done"
    /\ k_pc[2] = "done"
    /\ k_results[1].total_rounds = 2
    /\ k_results[2].total_rounds = 1
    /\ k_log[1][1].called /\ k_log[1][2].called
    /\ k_log[2][1].called
    /\ k_results[1].final = <<"a", "a">>
    /\ k_results[2].final = <<"a">>
    /\ k_results[1].total_principles_triggered # {}
    /\ k_results[2].converged


====
